---- MODULE Spec2Model ----
(***************************************************************************)
(* Orchestration control plane of claude-bot-infrastructure:               *)
(*   - FileBasedWorkQueue   (src/src/claude_bot/utils/work_queue.py)        *)
(*   - WorkflowManager      (src/src/claude_bot/orchestrator/               *)
(*                           workflow_manager.py)                           *)
(*   - ContainerManager     (src/src/claude_bot/platform/                   *)
(*                           container_manager.py)                          *)
(*   - CentralOrchestrator  (src/src/claude_bot/orchestrator/               *)
(*                           central_orchestrator.py)                       *)
(* The stores are directories of JSON files.  A file is written by         *)
(* open(path, 'w') (which truncates it) followed by json.dump; the two are  *)
(* separate steps here, as they are for every other process and for a kill. *)
(***************************************************************************)
EXTENDS Integers, Sequences, FiniteSets, TLC

VARIABLES
    now,        \* wall clock (datetime.now()), in abstract ticks
    qfs,        \* queue directories: partition -> task id -> file content
    qlock,      \* FileBasedWorkQueue._lock of each queue instance (one per process)
    qpc,        \* position of each caller inside a queue operation
    qloc,       \* local variables of the operation a caller is executing
    qret,       \* value returned by the caller's last finished operation
    qdead,      \* processes that were killed
    wf,         \* workflows directory: workflow id -> file content
    wlast,      \* the last WorkflowManager call and what it returned
    wcalls,     \* per workflow: retry_current_step calls made on its current step
    rpc,        \* racing WorkflowManager processes: position in their call
    rloc,       \* racing WorkflowManager processes: the call and its local record
    active,     \* ContainerManager.active_workers: container id -> WorkerInfo
    docker,     \* the container runtime: container id -> container status
    records,    \* workers directory: worker id -> container id in the stored record
    plast,      \* the last ContainerManager or CentralOrchestrator call and its result
    stats,      \* CentralOrchestrator.stats counters
    orch,       \* the orchestrator's main thread: loop position, signal handler, exit
    cb          \* a CircuitBreaker object and the outcome of the last call through it

qvars == <<qfs, qlock, qpc, qloc, qret, qdead>>
wvars == <<wf, wlast, wcalls>>
rvars == <<rpc, rloc>>
pvars == <<active, docker, records, plast, stats>>
vars == <<now, qfs, qlock, qpc, qloc, qret, qdead, wf, wlast, wcalls, rpc, rloc,
          active, docker, records, plast, stats, orch, cb>>
nonqueue == <<wvars, rvars, pvars, orch, cb>>
nonworkflow == <<qvars, rvars, pvars, orch, cb>>
nonpool == <<qvars, wvars, rvars, orch, cb>>

----------------------------------------------------------------------------
(* Bounds of the model *)

MaxTime == 1
ItemMaxRetries == 1
WfMaxTime == 2
RetryCallCap == 3
MaxHistory == 3
MaxWorkers == 2
MaxContainers == 3
MaxDiscovered == 2

----------------------------------------------------------------------------
(* Time *)

NoTime == -1
NoContainer == 0

Tick ==
    /\ now < MaxTime
    /\ now' = now + 1

----------------------------------------------------------------------------
(* Work items and the queue directories *)

Tasks == {"t1", "t2"}
TaskOrder == <<"t1", "t2">>
Partitions == {"pending", "assigned", "completed", "failed"}
SearchOrder == <<"pending", "assigned", "completed", "failed">>

Callers == {"w1", "w2", "w3"}
\* w1 and w2 are threads sharing one FileBasedWorkQueue object; w3 is another
\* process (a worker container) with its own object on the same directory.
InstanceOf(c) == IF c = "w3" THEN "B" ELSE "A"
Instances == {"A", "B"}

NoWorker == "nobody"
Absent == [kind |-> "absent"]
Partial == [kind |-> "partial"]

DefaultMaxRetries == 3

\* Platform requirement maps; a version is its list of dot-separated parts.
NoReqs == [p \in {} |-> <<>>]
NodeReq == [p \in {"nodejs"} |-> <<"18", "16", "0">>]
PythonReq == [p \in {"python"} |-> <<"3", "11">>]
JavaReq == [p \in {"java"} |-> <<"17">>]
ReqOf(t) == IF t = "t1" THEN NodeReq ELSE PythonReq

WorkItem(t, reqs, maxr) ==
    [kind |-> "item", task_id |-> t, platform_requirements |-> reqs,
     status |-> "pending", created_at |-> now,
     assigned_at |-> NoTime, started_at |-> NoTime,
     completed_at |-> NoTime, assigned_to |-> NoWorker, retry_count |-> 0,
     max_retries |-> maxr, error_message |-> "none", result |-> "none"]

IsItem(f) == f.kind = "item"
Exists(f) == f.kind # "absent"

Glob(dir) == {t \in Tasks : Exists(qfs[dir][t])}
Sorted(S) == SelectSeq(TaskOrder, LAMBDA t : t \in S)

VersionsCompatible(required, available) ==
    IF Len(required) >= 2 /\ Len(available) >= 2
    THEN required[1] = available[1] /\ required[2] = available[2]
    ELSE required = available

IsCompatible(item, caps) ==
    \/ DOMAIN item.platform_requirements = {}
    \/ /\ DOMAIN caps # {}
       /\ \A p \in DOMAIN item.platform_requirements :
            /\ p \in DOMAIN caps
            /\ \/ item.platform_requirements[p] = <<"latest">>
               \/ item.platform_requirements[p] = caps[p]
               \/ VersionsCompatible(item.platform_requirements[p], caps[p])

\* json.dump into a file opened with 'w'.  The file was truncated by this
\* writer's open; if another writer's dump landed since, the two outputs
\* overlay each other and the result is this writer's text or unreadable.
DumpOutcomes(current, rec) ==
    IF current = Partial THEN {rec} ELSE {rec, Partial}

\* Path.unlink() raises FileNotFoundError when the file is gone.
UnlinkMissingOk(dir, t) == FALSE

UnlinkRaises(dir, t) == ~Exists(qfs[dir][t])

NotCalled == [op |-> "none"]
Dequeued(t) == [op |-> "dequeue", task |-> t]
Enqueued(t) == [op |-> "enqueue", task |-> t]
StatusUpdated(t, status, ok) ==
    [op |-> "update_status", task |-> t, status |-> status, ok |-> ok]
Cleaned(n) == [op |-> "cleanup", count |-> n]
NoLocals == [op |-> "none"]

Idle(c) == qpc[c] = "idle" /\ InstanceOf(c) \notin qdead
LockFree(c) == qlock[InstanceOf(c)] = NoWorker
At(c, pc) == qpc[c] = pc /\ InstanceOf(c) \notin qdead

Return(c, v) ==
    /\ qret' = [qret EXCEPT ![c] = v]
    /\ qpc' = [qpc EXCEPT ![c] = "idle"]
    /\ qloc' = [qloc EXCEPT ![c] = NoLocals]
    /\ qlock' = [qlock EXCEPT ![InstanceOf(c)] = NoWorker]

----------------------------------------------------------------------------
(* FileBasedWorkQueue.dequeue *)

DeqStart(c, caps) ==
    /\ Idle(c) /\ LockFree(c)
    /\ qlock' = [qlock EXCEPT ![InstanceOf(c)] = c]
    /\ qloc' = [qloc EXCEPT ![c] =
                  [op |-> "dequeue", caps |-> caps, files |-> Sorted(Glob("pending"))]]
    /\ qpc' = [qpc EXCEPT ![c] = "deq_read"]
    /\ UNCHANGED <<now, qfs, qret, qdead>>

DeqStopsScan(c) ==
    /\ qloc' = [qloc EXCEPT ![c] =
                  [op |-> "dequeue", caps |-> qloc[c].caps, files |-> <<>>]]
    /\ qpc' = [qpc EXCEPT ![c] = "deq_read"]
    /\ UNCHANGED <<qlock, qret>>

DeqNextFile(c) ==
    /\ qloc' = [qloc EXCEPT ![c] =
                  [op |-> "dequeue", caps |-> qloc[c].caps, files |-> Tail(qloc[c].files)]]
    /\ qpc' = [qpc EXCEPT ![c] = "deq_read"]
    /\ UNCHANGED <<qlock, qret>>

DeqRead(c) ==
    /\ UNCHANGED nonqueue
    /\ At(c, "deq_read")
    /\ IF qloc[c].files = <<>>
       THEN Return(c, Dequeued("none")) /\ UNCHANGED <<now, qfs, qdead>>
       ELSE LET t == Head(qloc[c].files)
                f == qfs["pending"][t]
            IN  IF IsItem(f) /\ IsCompatible(f, qloc[c].caps)
                THEN /\ qloc' = [qloc EXCEPT ![c] =
                           [op |-> "dequeue", caps |-> qloc[c].caps,
                            files |-> qloc[c].files,
                            item |-> [f EXCEPT !.status = "assigned",
                                               !.assigned_at = now,
                                               !.assigned_to = c]]]
                     /\ qpc' = [qpc EXCEPT ![c] = "deq_open"]
                     /\ UNCHANGED <<now, qfs, qlock, qret, qdead>>
                ELSE DeqNextFile(c) /\ UNCHANGED <<now, qfs, qdead>>

DeqOpen(c) ==
    /\ UNCHANGED nonqueue
    /\ At(c, "deq_open")
    /\ qfs' = [qfs EXCEPT !["assigned"][qloc[c].item.task_id] = Partial]
    /\ qpc' = [qpc EXCEPT ![c] = "deq_dump"]
    /\ UNCHANGED <<now, qlock, qloc, qret, qdead>>

DeqDump(c) ==
    /\ UNCHANGED nonqueue
    /\ At(c, "deq_dump")
    /\ \E out \in DumpOutcomes(qfs["assigned"][qloc[c].item.task_id], qloc[c].item) :
         qfs' = [qfs EXCEPT !["assigned"][qloc[c].item.task_id] = out]
    /\ qpc' = [qpc EXCEPT ![c] = "deq_unlink"]
    /\ UNCHANGED <<now, qlock, qloc, qret, qdead>>

DeqUnlink(c) ==
    /\ UNCHANGED nonqueue
    /\ At(c, "deq_unlink")
    /\ LET t == qloc[c].item.task_id
       IN  IF UnlinkRaises("pending", t)
           THEN DeqNextFile(c) /\ UNCHANGED <<now, qfs, qdead>>
           ELSE /\ qfs' = [qfs EXCEPT !["pending"][t] = Absent]
                /\ Return(c, Dequeued(t))
                /\ UNCHANGED <<now, qdead>>

----------------------------------------------------------------------------
(* FileBasedWorkQueue.enqueue *)

Known(t) ==
    \/ \E d \in Partitions : Exists(qfs[d][t])
    \/ \E c \in Callers : qloc[c].op = "enqueue" /\ qloc[c].task_id = t

EnqOpenWith(c, t, reqs, maxr) ==
    /\ Idle(c) /\ LockFree(c)
    /\ ~Known(t)
    /\ qlock' = [qlock EXCEPT ![InstanceOf(c)] = c]
    /\ qloc' = [qloc EXCEPT ![c] =
                  [op |-> "enqueue", task_id |-> t, item |-> WorkItem(t, reqs, maxr)]]
    /\ qfs' = [qfs EXCEPT !["pending"][t] = Partial]
    /\ qpc' = [qpc EXCEPT ![c] = "enq_dump"]
    /\ UNCHANGED <<now, qret, qdead>>

EnqOpen(c, t, maxr) == EnqOpenWith(c, t, ReqOf(t), maxr)

EnqDump(c) ==
    /\ UNCHANGED nonqueue
    /\ At(c, "enq_dump")
    /\ \E out \in DumpOutcomes(qfs["pending"][qloc[c].task_id], qloc[c].item) :
         qfs' = [qfs EXCEPT !["pending"][qloc[c].task_id] = out]
    /\ Return(c, Enqueued(qloc[c].task_id))
    /\ UNCHANGED <<now, qdead>>

----------------------------------------------------------------------------
(* FileBasedWorkQueue.update_status *)

StatusDirectory(status) ==
    CASE status = "pending" -> "pending"
      [] status \in {"assigned", "in_progress"} -> "assigned"
      [] status = "completed" -> "completed"
      [] status \in {"failed", "retry"} -> "failed"
      [] OTHER -> "pending"

\* The first partition, in search order, that holds a file for the task.
FoundIn(t) ==
    LET hits == SelectSeq(SearchOrder, LAMBDA d : Exists(qfs[d][t]))
    IN  IF hits = <<>> THEN "nowhere" ELSE Head(hits)

Updated(item, status, error, result) ==
    [item EXCEPT
       !.status = status,
       !.started_at = IF status = "in_progress" THEN now ELSE @,
       !.completed_at = IF status \in {"completed", "failed"} THEN now ELSE @,
       !.error_message = IF error # "none" THEN error ELSE @,
       !.result = IF result # "none" THEN result ELSE @]

UpdStart(c, t, call) ==
    /\ Idle(c) /\ LockFree(c)
    /\ LET src == FoundIn(t)
       IN  IF src = "nowhere" \/ ~IsItem(qfs[src][t])
           THEN /\ Return(c, StatusUpdated(t, call.status, FALSE))
                /\ UNCHANGED <<now, qfs, qdead>>
           ELSE /\ qlock' = [qlock EXCEPT ![InstanceOf(c)] = c]
                /\ qloc' = [qloc EXCEPT ![c] =
                       [op |-> "update_status", src |-> src,
                        target |-> StatusDirectory(call.status),
                        item |-> Updated(qfs[src][t], call.status, call.error,
                                         call.result)]]
                /\ qpc' = [qpc EXCEPT ![c] = "upd_open"]
                /\ UNCHANGED <<now, qfs, qret, qdead>>

UpdOpen(c) ==
    /\ UNCHANGED nonqueue
    /\ At(c, "upd_open")
    /\ qfs' = [qfs EXCEPT ![qloc[c].target][qloc[c].item.task_id] = Partial]
    /\ qpc' = [qpc EXCEPT ![c] = "upd_dump"]
    /\ UNCHANGED <<now, qlock, qloc, qret, qdead>>

UpdDump(c) ==
    /\ UNCHANGED nonqueue
    /\ At(c, "upd_dump")
    /\ LET t == qloc[c].item.task_id
           d == qloc[c].target
       IN  /\ \E out \in DumpOutcomes(qfs[d][t], qloc[c].item) :
                qfs' = [qfs EXCEPT ![d][t] = out]
           /\ IF qloc[c].src # d
              THEN /\ qpc' = [qpc EXCEPT ![c] = "upd_unlink"]
                   /\ UNCHANGED <<qlock, qloc, qret>>
              ELSE Return(c, StatusUpdated(t, qloc[c].item.status, TRUE))
    /\ UNCHANGED <<now, qdead>>

UpdUnlink(c) ==
    /\ UNCHANGED nonqueue
    /\ At(c, "upd_unlink")
    /\ LET t == qloc[c].item.task_id
       IN  IF UnlinkRaises(qloc[c].src, t)
           THEN /\ Return(c, StatusUpdated(t, qloc[c].item.status, FALSE))
                /\ UNCHANGED <<now, qfs, qdead>>
           ELSE /\ qfs' = [qfs EXCEPT ![qloc[c].src][t] = Absent]
                /\ Return(c, StatusUpdated(t, qloc[c].item.status, TRUE))
                /\ UNCHANGED <<now, qdead>>

----------------------------------------------------------------------------
(* FileBasedWorkQueue.cleanup_stale_tasks *)

Timeouts == {0}

IsStaleAtCutoff(item, cutoff) == item.assigned_at # NoTime /\ item.assigned_at <= cutoff

IsStale(item, cutoff) == item.assigned_at # NoTime /\ item.assigned_at < cutoff

ReclaimedCountsAlways(item, timeout) ==
    IF item.retry_count < item.max_retries
    THEN [item EXCEPT !.retry_count = @ + 1,
                      !.status = "retry",
                      !.assigned_at = NoTime,
                      !.assigned_to = NoWorker,
                      !.error_message = "timed out"]
    ELSE [item EXCEPT !.retry_count = @ + 1,
                      !.status = "failed",
                      !.completed_at = now,
                      !.error_message = "max retries (timeout)"]

Reclaimed(item, timeout) ==
    IF item.retry_count < item.max_retries
    THEN [item EXCEPT !.retry_count = @ + 1,
                      !.status = "retry",
                      !.assigned_at = NoTime,
                      !.assigned_to = NoWorker,
                      !.error_message = "timed out"]
    ELSE [item EXCEPT !.status = "failed",
                      !.completed_at = now,
                      !.error_message = "max retries (timeout)"]

ReclaimDirectoryOneMore(item) ==
    IF item.retry_count <= item.max_retries THEN "pending" ELSE "failed"

ReclaimDirectory(item) ==
    IF item.retry_count < item.max_retries THEN "pending" ELSE "failed"

\* Path.glob yields the directory's entries in no particular order.
Orders(S) ==
    {s \in UNION {[1..n -> S] : n \in {Cardinality(S)}} :
        \A i, j \in DOMAIN s : i # j => s[i] # s[j]}

ClnStart(c, timeout) ==
    /\ Idle(c) /\ LockFree(c)
    /\ qlock' = [qlock EXCEPT ![InstanceOf(c)] = c]
    /\ \E files \in Orders(Glob("assigned")) :
         qloc' = [qloc EXCEPT ![c] =
                    [op |-> "cleanup", timeout |-> timeout, cutoff |-> now - timeout,
                     files |-> files, count |-> 0]]
    /\ qpc' = [qpc EXCEPT ![c] = "cln_read"]
    /\ UNCHANGED <<now, qfs, qret, qdead>>

ClnNextFile(c, count) ==
    /\ qloc' = [qloc EXCEPT ![c] =
                  [op |-> "cleanup", timeout |-> qloc[c].timeout,
                   cutoff |-> qloc[c].cutoff, files |-> Tail(qloc[c].files),
                   count |-> count]]
    /\ qpc' = [qpc EXCEPT ![c] = "cln_read"]
    /\ UNCHANGED <<qlock, qret>>

ClnRead(c) ==
    /\ UNCHANGED nonqueue
    /\ At(c, "cln_read")
    /\ IF qloc[c].files = <<>>
       THEN Return(c, Cleaned(qloc[c].count)) /\ UNCHANGED <<now, qfs, qdead>>
       ELSE LET t == Head(qloc[c].files)
                f == qfs["assigned"][t]
            IN  IF IsItem(f) /\ IsStale(f, qloc[c].cutoff)
                THEN /\ qloc' = [qloc EXCEPT ![c] =
                           [op |-> "cleanup", timeout |-> qloc[c].timeout,
                            cutoff |-> qloc[c].cutoff, files |-> qloc[c].files,
                            count |-> qloc[c].count,
                            target |-> ReclaimDirectory(f),
                            item |-> Reclaimed(f, qloc[c].timeout)]]
                     /\ qpc' = [qpc EXCEPT ![c] = "cln_open"]
                     /\ UNCHANGED <<now, qfs, qlock, qret, qdead>>
                ELSE ClnNextFile(c, qloc[c].count) /\ UNCHANGED <<now, qfs, qdead>>

ClnOpen(c) ==
    /\ UNCHANGED nonqueue
    /\ At(c, "cln_open")
    /\ qfs' = [qfs EXCEPT ![qloc[c].target][qloc[c].item.task_id] = Partial]
    /\ qpc' = [qpc EXCEPT ![c] = "cln_dump"]
    /\ UNCHANGED <<now, qlock, qloc, qret, qdead>>

ClnDump(c) ==
    /\ UNCHANGED nonqueue
    /\ At(c, "cln_dump")
    /\ LET t == qloc[c].item.task_id
           d == qloc[c].target
       IN  \E out \in DumpOutcomes(qfs[d][t], qloc[c].item) :
             qfs' = [qfs EXCEPT ![d][t] = out]
    /\ qpc' = [qpc EXCEPT ![c] = "cln_unlink"]
    /\ UNCHANGED <<now, qlock, qloc, qret, qdead>>

ClnUnlink(c) ==
    /\ UNCHANGED nonqueue
    /\ At(c, "cln_unlink")
    /\ LET t == qloc[c].item.task_id
       IN  IF UnlinkRaises("assigned", t)
           THEN ClnNextFile(c, qloc[c].count) /\ UNCHANGED <<now, qfs, qdead>>
           ELSE /\ qfs' = [qfs EXCEPT !["assigned"][t] = Absent]
                /\ ClnNextFile(c, qloc[c].count + 1)
                /\ UNCHANGED <<now, qdead>>

----------------------------------------------------------------------------
(* A process holding a queue object is killed (hard kill, power loss) *)

Busy(i) == \E c \in Callers : InstanceOf(c) = i /\ qpc[c] # "idle"

Kill(i) ==
    /\ i \notin qdead
    /\ Busy(i)
    /\ qdead' = qdead \cup {i}
    /\ UNCHANGED <<now, qfs, qlock, qpc, qloc, qret>>

----------------------------------------------------------------------------
(* WorkflowManager: records and the step table *)

Issues == {42}
Repo == "a/b"
WfIds == Issues \X (0 .. WfMaxTime)

Steps == <<"analysis", "planning", "implementation", "pr_creation",
           "feedback_handling", "completion">>

NextStepSkipsFeedback(step) ==
    CASE step = "analysis" -> "planning"
      [] step = "planning" -> "implementation"
      [] step = "implementation" -> "pr_creation"
      [] step = "pr_creation" -> "completion"
      [] OTHER -> "none"

NextStep(step) ==
    CASE step = "analysis" -> "planning"
      [] step = "planning" -> "implementation"
      [] step = "implementation" -> "pr_creation"
      [] step = "pr_creation" -> "feedback_handling"
      [] step = "feedback_handling" -> "completion"
      [] OTHER -> "none"

CanWaitForFeedback(step) == step \in {"analysis", "planning", "feedback_handling"}

\* max_duration of each step, in hours (one tick of the clock is an hour here).
MaxDuration(step) ==
    CASE step = "analysis" -> 1
      [] step = "planning" -> 2
      [] step = "implementation" -> 8
      [] step = "pr_creation" -> 1
      [] step = "feedback_handling" -> 168
      [] OTHER -> 1

WorkflowMaxRetries == 2

NoContext ==
    [current_worker |-> NoContainer, step_started_at |-> NoTime, last_error |-> "none",
     failure_reason |-> "none", feedback_requested_at |-> NoTime]

NewWorkflowInProgress(issue) ==
    [kind |-> "workflow", issue_number |-> issue, repo |-> Repo,
     current_step |-> "analysis", status |-> "in_progress",
     created_at |-> now, updated_at |-> now, step_history |-> <<>>,
     context |-> NoContext, retry_count |-> 0, max_retries |-> WorkflowMaxRetries]

NewWorkflow(issue) ==
    [kind |-> "workflow", issue_number |-> issue, repo |-> Repo,
     current_step |-> "analysis", status |-> "pending",
     created_at |-> now, updated_at |-> now, step_history |-> <<>>,
     context |-> NoContext, retry_count |-> 0, max_retries |-> WorkflowMaxRetries]

IsWorkflow(f) == f.kind = "workflow"

\* get_workflow: None when the file is missing or does not parse.
Readable(store, id) == IsWorkflow(store[id])

AdvancedRewritesHistory(w, step_result) ==
    LET h == IF step_result # "none"
             THEN <<[step |-> w.current_step, status |-> "completed", retry |-> 0]>>
             ELSE w.step_history
        next == NextStep(w.current_step)
    IN  IF next # "none"
        THEN [w EXCEPT !.step_history = h,
                       !.current_step = next,
                       !.status = IF next = "completion" THEN "completed" ELSE "pending",
                       !.retry_count = 0,
                       !.updated_at = now]
        ELSE [w EXCEPT !.step_history = h, !.status = "completed", !.updated_at = now]

Advanced(w, step_result) ==
    LET h == IF step_result # "none"
             THEN Append(w.step_history,
                         [step |-> w.current_step, status |-> "completed", retry |-> 0])
             ELSE w.step_history
        next == NextStep(w.current_step)
    IN  IF next # "none"
        THEN [w EXCEPT !.step_history = h,
                       !.current_step = next,
                       !.status = IF next = "completion" THEN "completed" ELSE "pending",
                       !.retry_count = 0,
                       !.updated_at = now]
        ELSE [w EXCEPT !.step_history = h, !.status = "completed", !.updated_at = now]

RetriedFromStart(w, error) ==
    IF w.retry_count >= w.max_retries
    THEN [w EXCEPT !.status = "failed",
                   !.context.failure_reason = "max retries exceeded",
                   !.updated_at = now]
    ELSE [w EXCEPT !.retry_count = @ + 1,
                   !.status = "pending",
                   !.current_step = "analysis",
                   !.context.last_error = error,
                   !.step_history =
                       Append(@, [step |-> w.current_step, status |-> "retry",
                                  retry |-> w.retry_count + 1]),
                   !.updated_at = now]

RetriedOneTooMany(w, error) ==
    IF w.retry_count > w.max_retries
    THEN [w EXCEPT !.status = "failed",
                   !.context.failure_reason = "max retries exceeded",
                   !.updated_at = now]
    ELSE [w EXCEPT !.retry_count = @ + 1,
                   !.status = "pending",
                   !.context.last_error = error,
                   !.step_history =
                       Append(@, [step |-> w.current_step, status |-> "retry",
                                  retry |-> w.retry_count + 1]),
                   !.updated_at = now]

Retried(w, error) ==
    IF w.retry_count >= w.max_retries
    THEN [w EXCEPT !.status = "failed",
                   !.context.failure_reason = "max retries exceeded",
                   !.updated_at = now]
    ELSE [w EXCEPT !.retry_count = @ + 1,
                   !.status = "pending",
                   !.context.last_error = error,
                   !.step_history =
                       Append(@, [step |-> w.current_step, status |-> "retry",
                                  retry |-> w.retry_count + 1]),
                   !.updated_at = now]

MarkedInProgress(w, worker) ==
    [w EXCEPT !.status = "in_progress",
              !.context.current_worker = worker,
              !.context.step_started_at = now,
              !.updated_at = now]

MarkedWaiting(w) ==
    [w EXCEPT !.status = "waiting_for_feedback",
              !.context.feedback_requested_at = now,
              !.updated_at = now]

IsWorkflowTimedOut(w) ==
    /\ w.status = "in_progress"
    /\ w.context.step_started_at # NoTime
    /\ now - w.context.step_started_at > MaxDuration(w.current_step)

NoItem == [kind |-> "none", workflow_id |-> <<>>]
StepItem(id, w) ==
    [kind |-> "step", workflow_id |-> id, task_id |-> <<id, w.current_step>>,
     workflow_step |-> w.current_step, retry_count |-> w.retry_count]

IsPendingOrWaiting(w) == w.status \in {"pending", "waiting_for_feedback"}

\* workflow.status in [WorkflowStatus.PENDING]
IsPending(w) == w.status = "pending"

\* The loop of get_next_work_item over the globbed files, in the order given.
RECURSIVE ScanWorkflows(_, _)
ScanWorkflows(files, store) ==
    IF files = <<>> THEN [store |-> store, item |-> NoItem]
    ELSE LET id == Head(files)
             w == store[id]
         IN  IF ~Readable(store, id) THEN ScanWorkflows(Tail(files), store)
             ELSE IF ~IsPending(w) THEN ScanWorkflows(Tail(files), store)
             ELSE IF IsWorkflowTimedOut(w)
                  THEN ScanWorkflows(Tail(files),
                         [store EXCEPT ![id] = Retried(w, "Workflow step timed out")])
             ELSE [store |-> store, item |-> StepItem(id, w)]

WfGlob == {id \in WfIds : wf[id].kind # "absent"}

WfOrders(S) ==
    {s \in [1 .. Cardinality(S) -> S] : \A i, j \in DOMAIN s : i # j => s[i] # s[j]}

Called(op, id, ret) == [op |-> op, id |-> id, ret |-> ret]

----------------------------------------------------------------------------
(* WorkflowManager operations, each one call by the single-threaded caller *)

CreateWorkflow(issue) ==
    /\ wf' = [wf EXCEPT ![<<issue, now>>] = NewWorkflow(issue)]
    /\ wlast' = Called("create_workflow", <<issue, now>>, TRUE)
    /\ wcalls' = [wcalls EXCEPT ![<<issue, now>>] = 0]

AdvanceWorkflow(id, step_result) ==
    IF Readable(wf, id)
    THEN /\ wf' = [wf EXCEPT ![id] = Advanced(wf[id], step_result)]
         /\ wlast' = Called("advance_workflow", id, TRUE)
         /\ wcalls' = [wcalls EXCEPT
                         ![id] = IF NextStep(wf[id].current_step) # "none" THEN 0 ELSE @]
    ELSE /\ wlast' = Called("advance_workflow", id, FALSE)
         /\ UNCHANGED <<wf, wcalls>>

RetryCurrentStep(id, error) ==
    IF Readable(wf, id)
    THEN /\ wf' = [wf EXCEPT ![id] = Retried(wf[id], error)]
         /\ wlast' = Called("retry_current_step", id,
                            Retried(wf[id], error).status # "failed")
         /\ wcalls' = [wcalls EXCEPT ![id] = @ + 1]
    ELSE /\ wlast' = Called("retry_current_step", id, FALSE)
         /\ UNCHANGED <<wf, wcalls>>

MarkStepInProgress(id, worker) ==
    IF Readable(wf, id)
    THEN /\ wf' = [wf EXCEPT ![id] = MarkedInProgress(wf[id], worker)]
         /\ wlast' = Called("mark_step_in_progress", id, TRUE)
         /\ UNCHANGED wcalls
    ELSE /\ wlast' = Called("mark_step_in_progress", id, FALSE)
         /\ UNCHANGED <<wf, wcalls>>

MarkStepWaitingForFeedback(id) ==
    IF Readable(wf, id) /\ CanWaitForFeedback(wf[id].current_step)
    THEN /\ wf' = [wf EXCEPT ![id] = MarkedWaiting(wf[id])]
         /\ wlast' = Called("mark_step_waiting_for_feedback", id, TRUE)
         /\ UNCHANGED wcalls
    ELSE /\ wlast' = Called("mark_step_waiting_for_feedback", id, FALSE)
         /\ UNCHANGED <<wf, wcalls>>

\* update_workflow with no context updates; status "none" is the call
\* without a status, step_result "none" the call without a result.  The
\* history entry it appends has no "status" key.
UpdateWorkflow(id, status, step_result) ==
    IF Readable(wf, id)
    THEN /\ wf' = [wf EXCEPT ![id] =
                    [@ EXCEPT !.updated_at = now,
                              !.status = IF status # "none" THEN status ELSE @,
                              !.step_history =
                                  IF step_result # "none"
                                  THEN Append(@, [step |-> wf[id].current_step,
                                                  status |-> "none", retry |-> 0])
                                  ELSE @]]
         /\ wlast' = Called("update_workflow", id, TRUE)
         /\ UNCHANGED wcalls
    ELSE /\ wlast' = Called("update_workflow", id, FALSE)
         /\ UNCHANGED <<wf, wcalls>>

GetNextWorkItem ==
    \E files \in WfOrders(WfGlob) :
        LET scan == ScanWorkflows(files, wf)
        IN  /\ wf' = scan.store
            /\ wlast' = Called("get_next_work_item", scan.item.workflow_id, scan.item)
            /\ UNCHANGED wcalls

----------------------------------------------------------------------------
(* ContainerManager: the worker pool over the container runtime *)

Containers == 1 .. MaxContainers
NoInfo == [kind |-> "none"]

\* A task id: its first eight characters and the rest.
StepTask(id, step) == [head |-> "workflow", tail |-> <<id, step>>]
PlainTask(t) == [head |-> t, tail |-> <<>>]

\* worker_id = f"worker-{task_id[:8]}"
WorkerId(t) == t.head
WorkerIds == {"workflow"} \cup Tasks

WorkerInfo(c, t) ==
    [kind |-> "worker", container_id |-> c, task_id |-> t, worker_id |-> WorkerId(t),
     status |-> "running", created_at |-> now]

Pool == [active |-> active, docker |-> docker, records |-> records]
ActiveIn(P) == {c \in Containers : P.active[c].kind = "worker"}
ActiveWorkers == ActiveIn(Pool)

CanSpawnWorkerAtCap(P) == Cardinality(ActiveIn(P)) <= MaxWorkers

CanSpawnWorker(P) == Cardinality(ActiveIn(P)) < MaxWorkers

\* The runtime names each new container with an id it never used before.
Unused(P) == {c \in Containers : P.docker[c] = "unused"}
Fresh(P) == CHOOSE c \in Unused(P) : \A d \in Unused(P) : c <= d

SpawnOutcomes == {"image_failure", "run_failure", "record_failure", "ok"}

\* spawn_worker(work_item): the pool afterwards and the returned container id.
Spawned(P, t, outcome) ==
    IF ~CanSpawnWorker(P) THEN [pool |-> P, ret |-> NoContainer]
    ELSE IF outcome \in {"image_failure", "run_failure"}
    THEN [pool |-> P, ret |-> NoContainer]
    ELSE LET c == Fresh(P)
             registered == [P EXCEPT !.docker[c] = "running",
                                     !.active[c] = WorkerInfo(c, t)]
         IN  IF outcome = "record_failure"
             THEN [pool |-> registered, ret |-> NoContainer]
             ELSE [pool |-> [registered EXCEPT !.records[WorkerId(t)] = c], ret |-> c]

\* _cleanup_worker
CleanedUp(P, c) ==
    [P EXCEPT !.active[c] = NoInfo, !.records[P.active[c].worker_id] = NoContainer]

Put(updates, t, status) ==
    SelectSeq(updates, LAMBDA u : u.task # t) \o <<[task |-> t, status |-> status]>>

\* monitor_workers: the loop over list(self.active_workers.items()), which is
\* in registration order, i.e. in the order of the container ids.
RECURSIVE Monitored(_, _, _)
Monitored(P, c, updates) ==
    IF c > MaxContainers THEN [pool |-> P, ret |-> updates]
    ELSE IF c \notin ActiveIn(P) THEN Monitored(P, c + 1, updates)
    ELSE LET info == P.active[c]
         IN  IF P.docker[c] = "removed"
             THEN Monitored(CleanedUp(P, c), c + 1, Put(updates, info.task_id, "removed"))
             ELSE LET seen == [P EXCEPT !.active[c].status = P.docker[c]]
                      ups == IF info.status # P.docker[c]
                             THEN Put(updates, info.task_id, P.docker[c])
                             ELSE updates
                  IN  IF P.docker[c] \in {"exited", "dead"}
                      THEN Monitored(CleanedUp(seen, c), c + 1, ups)
                      ELSE Monitored(seen, c + 1, ups)

\* containers.get(id) raises NotFound for a removed container; stop() ends a
\* running one.
Stopped(P, c) ==
    [P EXCEPT !.docker[c] = IF @ = "running" THEN "exited" ELSE @]

RECURSIVE StoppedAll(_, _, _, _)
StoppedAll(P, c, cutoff, count) ==
    IF c > MaxContainers THEN [pool |-> P, ret |-> count]
    ELSE IF c \notin ActiveIn(P) \/ ~(P.active[c].created_at < cutoff)
    THEN StoppedAll(P, c + 1, cutoff, count)
    ELSE IF P.docker[c] = "removed" THEN StoppedAll(P, c + 1, cutoff, count)
    ELSE StoppedAll(CleanedUp(Stopped(P, c), c), c + 1, cutoff, count + 1)

\* cleanup_stale_workers(timeout_minutes)
StaleCleaned(P, timeout) == StoppedAll(P, 1, now - timeout, 0)

\* shutdown(): the same loop over every active worker.
ShutDown(P) == StoppedAll(P, 1, MaxTime + 1, 0)

\* The main thread of the orchestrator process.  main is where the loop of
\* start_orchestration stands: "idle" in time.sleep(30), "locked" inside a
\* with self._lock block of the ContainerManager during a cycle.  handler is
\* the position of signal_handler, which Python runs in the main thread, on
\* top of whatever the loop was doing.  exit is <<>> while the process lives
\* and <<code>> once sys.exit(code) has ended it.
OrchStarted ==
    [main |-> "idle", running |-> TRUE, handler |-> "none",
     pool_shutdowns |-> 0, publishes |-> 0, exit |-> <<>>]

\* CircuitBreaker.__init__.  streak counts the consecutive calls of the
\* wrapped function that raised; result and invoked describe the last call
\* made through the wrapper.
BreakerClosed ==
    [state |-> "CLOSED", failure_count |-> 0, last_failure_time |-> NoTime,
     streak |-> 0, result |-> "none", invoked |-> FALSE]

SetPool(r, op) ==
    /\ active' = r.pool.active
    /\ docker' = r.pool.docker
    /\ records' = r.pool.records
    /\ plast' = [op |-> op, ret |-> r.ret]
    /\ UNCHANGED stats

NoWorkers ==
    /\ active = [c \in Containers |-> NoInfo]
    /\ docker = [c \in Containers |-> "unused"]
    /\ records = [w \in WorkerIds |-> NoContainer]
    /\ plast = [op |-> "none", ret |-> NoContainer]
    /\ stats = [tasks_processed |-> 0, tasks_completed |-> 0, tasks_failed |-> 0,
                workers_spawned |-> 0]
    /\ orch = OrchStarted
    /\ cb = BreakerClosed

PoolTasks == {PlainTask("t1"), StepTask(<<42, 0>>, "analysis")}
PoolTimeouts == {0, 1}

SpawnWorker(t) ==
    /\ Unused(Pool) # {}
    /\ \E outcome \in SpawnOutcomes : SetPool(Spawned(Pool, t, outcome), "spawn_worker")
MonitorWorkers == SetPool(Monitored(Pool, 1, <<>>), "monitor_workers")
CleanupStaleWorkers(timeout) == SetPool(StaleCleaned(Pool, timeout), "cleanup_stale_workers")
Shutdown == SetPool(ShutDown(Pool), "shutdown")

\* The runtime: a worker's process ends, and a container started with
\* remove=True is removed once it has exited.
ContainerEnds(c) ==
    /\ docker[c] = "running"
    /\ docker' = [docker EXCEPT ![c] = "exited"]
    /\ UNCHANGED <<active, records, plast, stats>>
ContainerRemoved(c) ==
    /\ docker[c] = "exited"
    /\ docker' = [docker EXCEPT ![c] = "removed"]
    /\ UNCHANGED <<active, records, plast, stats>>

----------------------------------------------------------------------------
(* CentralOrchestrator: the cycles of the single-threaded loop *)

ListUnfinishedWorkflows(store) ==
    {id \in WfIds : Readable(store, id) /\ store[id].status \notin {"completed", "failed"}}

\* list_active_workflows: every readable workflow that is not COMPLETED.
ListActiveWorkflows(store) ==
    {id \in WfIds : Readable(store, id) /\ store[id].status # "completed"}

FindExistingTask(store, issue) ==
    \E id \in ListActiveWorkflows(store) :
        store[id].issue_number = issue /\ store[id].repo = Repo

\* get_task: the first partition in the search order that holds the file.
GetTask(store, t) ==
    IF t.tail # <<>> \/ t.head \notin Tasks THEN Absent
    ELSE IF \A i \in DOMAIN SearchOrder : ~Exists(store[SearchOrder[i]][t.head]) THEN Absent
    ELSE store[SearchOrder[CHOOSE i \in DOMAIN SearchOrder :
                   /\ Exists(store[SearchOrder[i]][t.head])
                   /\ \A j \in 1 .. i - 1 : ~Exists(store[SearchOrder[j]][t.head])]][t.head]

\* spawn_worker(self, work_item) takes no other argument: a call that passes
\* more raises TypeError before the body runs.
SpawnWorkerParameters == {"work_item"}
WorkflowSpawnArguments == {"work_item", "worker_script", "environment_vars"}

SpawnWorkerCall(P, t, arguments, outcome) ==
    IF arguments \subseteq SpawnWorkerParameters
    THEN [raised |-> FALSE, pool |-> Spawned(P, t, outcome).pool,
          ret |-> Spawned(P, t, outcome).ret]
    ELSE [raised |-> TRUE, pool |-> P, ret |-> NoContainer]

\* The runtime's answer is an input of the cycle only if the call reaches it.
CycleOutcomes ==
    IF WorkflowSpawnArguments \subseteq SpawnWorkerParameters THEN SpawnOutcomes ELSE {"ok"}

\* _spawn_workflow_worker over S = [wf, pool, spawned, offered].
SpawnWorkflowWorkerMarksAnyway(S, item, outcome) ==
    LET call == SpawnWorkerCall(S.pool, StepTask(item.workflow_id, item.workflow_step),
                                WorkflowSpawnArguments, outcome)
        id == item.workflow_id
    IN  [state |-> [S EXCEPT !.pool = call.pool,
                             !.wf = IF Readable(S.wf, id)
                                    THEN [S.wf EXCEPT ![id] = MarkedInProgress(@, call.ret)]
                                    ELSE S.wf],
         ok |-> TRUE]

SpawnWorkflowWorker(S, item, outcome) ==
    LET call == SpawnWorkerCall(S.pool, StepTask(item.workflow_id, item.workflow_step),
                                WorkflowSpawnArguments, outcome)
        id == item.workflow_id
    IN  IF call.raised THEN [state |-> S, ok |-> FALSE]
        ELSE IF call.ret # NoContainer
        THEN [state |-> [S EXCEPT !.pool = call.pool,
                                  !.wf = IF Readable(S.wf, id)
                                         THEN [S.wf EXCEPT
                                                 ![id] = MarkedInProgress(@, call.ret)]
                                         ELSE S.wf],
              ok |-> TRUE]
        ELSE [state |-> [S EXCEPT !.pool = call.pool], ok |-> FALSE]

\* The for loop of process_workflow_queue.
RECURSIVE ProcessLoop(_, _, _, _)
ProcessLoop(n, S, files, outcome) ==
    IF n = 0 THEN S
    ELSE LET scan == ScanWorkflows(files, S.wf)
             offered == [S EXCEPT !.wf = scan.store, !.offered = scan.item]
         IN  IF scan.item.kind = "none" THEN [S EXCEPT !.wf = scan.store]
             ELSE LET sp == SpawnWorkflowWorker(offered, scan.item, outcome)
                  IN  IF sp.ok
                      THEN ProcessLoop(n - 1, [sp.state EXCEPT !.spawned = @ + 1],
                                       files, outcome)
                      ELSE sp.state

Min(a, b) == IF a <= b THEN a ELSE b

ProcessWorkflowQueue(S, files, outcome) ==
    LET active_workflows ==
            Cardinality({id \in ListActiveWorkflows(S.wf) :
                            S.wf[id].status \in {"pending", "in_progress"}})
        available_slots == MaxWorkers - Cardinality(ActiveIn(S.pool))
    IN  IF active_workflows = 0 \/ available_slots <= 0 THEN S
        ELSE ProcessLoop(Min(available_slots, active_workflows), S, files, outcome)

\* monitor_workers of the orchestrator: the counters after the status updates.
RECURSIVE Counted(_, _, _)
Counted(st, updates, store) ==
    IF updates = <<>> THEN st
    ELSE LET u == Head(updates)
             task == GetTask(store, u.task)
             st2 == IF u.status \in {"exited", "removed"} /\ IsItem(task)
                    THEN IF task.status = "completed"
                         THEN [st EXCEPT !.tasks_completed = @ + 1]
                         ELSE IF task.status = "failed"
                         THEN [st EXCEPT !.tasks_failed = @ + 1]
                         ELSE st
                    ELSE st
         IN  Counted(st2, Tail(updates), store)

\* run_processing_cycle: process_workflow_queue, then monitor_workers.
RunProcessingCycle ==
    \E files \in WfOrders(WfGlob), outcome \in CycleOutcomes :
        LET S == ProcessWorkflowQueue(
                     [wf |-> wf, pool |-> Pool, spawned |-> 0, offered |-> NoItem],
                     files, outcome)
            M == Monitored(S.pool, 1, <<>>)
        IN  /\ wf' = S.wf
            /\ active' = M.pool.active
            /\ docker' = M.pool.docker
            /\ records' = M.pool.records
            /\ stats' = Counted([stats EXCEPT !.workers_spawned = @ + S.spawned],
                                M.ret, qfs)
            /\ plast' = [op |-> "run_processing_cycle",
                         ret |-> [offered |-> S.offered, spawned |-> S.spawned,
                                  updates |-> M.ret]]
            /\ UNCHANGED <<wlast, wcalls>>

\* run_discovery_cycle: a workflow for each reported issue that has none.
RunDiscoveryCycle(reported) ==
    LET fresh == {i \in reported : ~FindExistingTask(wf, i)}
    IN  /\ wf' = [id \in WfIds |->
                    IF id[2] = now /\ id[1] \in fresh THEN NewWorkflow(id[1]) ELSE wf[id]]
        /\ wcalls' = [id \in WfIds |-> IF id[2] = now /\ id[1] \in fresh THEN 0 ELSE wcalls[id]]
        /\ stats' = [stats EXCEPT !.tasks_processed = @ + Cardinality(fresh)]
        /\ plast' = [op |-> "run_discovery_cycle", ret |-> Cardinality(fresh)]
        /\ UNCHANGED <<wlast, active, docker, records>>

StaleTaskHours == 0
StaleWorkerHours == 1

\* cleanup_stale_tasks run to its end with nothing else touching the store.
Swept(store, timeout) ==
    LET stale == {t \in Tasks : /\ IsItem(store["assigned"][t])
                                /\ IsStale(store["assigned"][t], now - timeout)}
    IN  [d \in Partitions |-> [t \in Tasks |->
            IF t \notin stale THEN store[d][t]
            ELSE IF d = ReclaimDirectory(store["assigned"][t])
            THEN Reclaimed(store["assigned"][t], timeout)
            ELSE IF d = "assigned" THEN Absent
            ELSE store[d][t]]]

\* The count cleanup_stale_tasks returns after such a run.
SweptCount(store, timeout) ==
    Cardinality({t \in Tasks : /\ IsItem(store["assigned"][t])
                               /\ IsStale(store["assigned"][t], now - timeout)})

\* cleanup_stale_resources
CleanupStaleResources ==
    /\ qfs' = Swept(qfs, StaleTaskHours)
    /\ SetPool(StaleCleaned(Pool, StaleWorkerHours), "cleanup_stale_resources")

----------------------------------------------------------------------------
(* N dequeue calls racing on one compatible pending item *)

CapsOf(c) ==
    IF c = "w1" THEN [p \in {"nodejs"} |-> <<"18", "16", "0">>]
    ELSE IF c = "w2" THEN [p \in {"nodejs"} |-> <<"18", "16", "2">>]
    ELSE [p \in {"nodejs", "python"} |->
             IF p = "nodejs" THEN <<"18", "16", "0">> ELSE <<"3", "11">>]

EmptyStore == [d \in Partitions |-> [t \in Tasks |-> Absent]]

QueueIdle ==
    /\ qlock = [i \in Instances |-> NoWorker]
    /\ qpc = [c \in Callers |-> "idle"]
    /\ qloc = [c \in Callers |-> NoLocals]
    /\ qret = [c \in Callers |-> NotCalled]
    /\ qdead = {}

Procs == {"p1", "p2"}
NoCall == [op |-> "none"]

NoWorkflowCalls ==
    /\ wlast = Called("none", <<>>, FALSE)
    /\ wcalls = [id \in WfIds |-> 0]
    /\ rpc = [p \in Procs |-> "idle"]
    /\ rloc = [p \in Procs |-> NoCall]

NoWorkflows == wf = [id \in WfIds |-> Absent] /\ NoWorkflowCalls /\ NoWorkers

RaceInit ==
    /\ now = 0
    /\ \E other \in {Absent, WorkItem("t2", JavaReq, DefaultMaxRetries)} :
         qfs = [EmptyStore EXCEPT
                  !["pending"]["t1"] = WorkItem("t1", NodeReq, DefaultMaxRetries),
                  !["pending"]["t2"] = other]
    /\ QueueIdle
    /\ NoWorkflows

RaceDequeue(c) == qret[c] = NotCalled /\ DeqStart(c, CapsOf(c)) /\ UNCHANGED nonqueue

RaceNext ==
    \E c \in Callers :
        \/ RaceDequeue(c)
        \/ DeqRead(c)
        \/ DeqOpen(c)
        \/ DeqDump(c)
        \/ DeqUnlink(c)

SpecRace == RaceInit /\ [][RaceNext]_vars

RaceDone == \A c \in Callers : qret[c] # NotCalled /\ qpc[c] = "idle"

\* C1: when N dequeue calls race on a store holding one compatible pending
\* item, exactly one call returns the item and every other returns nothing.
C1_ExactlyOneDequeueWins ==
    RaceDone =>
        /\ Cardinality({c \in Callers : qret[c] = Dequeued("t1")}) = 1
        /\ \A c \in Callers : qret[c] \in {Dequeued("t1"), Dequeued("none")}

\* The race has been run to its end and a caller that read the item lost it:
\* the other process's caller won although w1 held its own instance's lock.
C1_Witness ==
    /\ RaceDone
    /\ qret["w3"] = Dequeued("t1")
    /\ qret["w1"] = Dequeued("none")
    /\ qfs["assigned"]["t1"] # Absent
    /\ qfs["assigned"]["t1"] # Partial
    /\ qfs["assigned"]["t1"].assigned_to = "w1"

----------------------------------------------------------------------------
(* The queue shared by the orchestrator process (w1) and a worker process  *)
(* (w3), either of which may be killed                                     *)

Orchestrator == "w1"
Worker == "w3"
QTasks == {"t1"}

QueueInit ==
    /\ now = 0
    /\ qfs = EmptyStore
    /\ QueueIdle
    /\ NoWorkflows

\* WorkerExecutor.run: get_work_item dequeues, process_task reports
\* IN_PROGRESS and then COMPLETED or FAILED for the item it was given.
HoldsNothing(c) ==
    \/ qret[c].op \in {"none", "enqueue", "cleanup"}
    \/ qret[c].op = "dequeue" /\ qret[c].task = "none"
    \/ qret[c].op = "update_status" /\ qret[c].status \in {"completed", "failed"}

NextReports(c) ==
    IF qret[c].op = "dequeue" /\ qret[c].task # "none"
    THEN {[task |-> qret[c].task, status |-> "in_progress", error |-> "none",
           result |-> "none"]}
    ELSE IF qret[c].op = "update_status" /\ qret[c].status = "in_progress"
    THEN {[task |-> qret[c].task, status |-> "completed", error |-> "none",
           result |-> "output"],
          [task |-> qret[c].task, status |-> "failed", error |-> "worker error",
           result |-> "none"]}
    ELSE {}

QEnqueue(c) == (\E t \in QTasks : EnqOpen(c, t, ItemMaxRetries)) /\ UNCHANGED nonqueue
QDequeue(c) == HoldsNothing(c) /\ DeqStart(c, CapsOf(c)) /\ UNCHANGED nonqueue
QUpdateStatus(c) ==
    (\E call \in NextReports(c) : UpdStart(c, call.task, call)) /\ UNCHANGED nonqueue
QCleanup(c) == (\E timeout \in Timeouts : ClnStart(c, timeout)) /\ UNCHANGED nonqueue
QTick == Tick /\ UNCHANGED <<qvars, nonqueue>>
QKill == (\E i \in Instances : Kill(i)) /\ UNCHANGED nonqueue

\* The orchestrator process enqueues and sweeps; the worker process dequeues
\* and reports (WorkerExecutor.get_work_item, WorkerExecutor.process_task).
QueueNext ==
    \/ QEnqueue(Orchestrator) \/ EnqDump(Orchestrator)
    \/ QCleanup(Orchestrator) \/ ClnRead(Orchestrator) \/ ClnOpen(Orchestrator)
    \/ ClnDump(Orchestrator) \/ ClnUnlink(Orchestrator)
    \/ QDequeue(Worker) \/ DeqRead(Worker) \/ DeqOpen(Worker)
    \/ DeqDump(Worker) \/ DeqUnlink(Worker)
    \/ QUpdateStatus(Worker) \/ UpdOpen(Worker) \/ UpdDump(Worker)
    \/ UpdUnlink(Worker)
    \/ QTick
    \/ QKill

SpecQueue == QueueInit /\ [][QueueNext]_vars

\* C7: in every state an observer can see (get_task and get_queue_stats take
\* no lock, other processes share the directory), each task id is stored
\* under at most one partition.
C7_OnePartitionPerTask ==
    \A t \in Tasks : Cardinality({d \in Partitions : Exists(qfs[d][t])}) <= 1

Quiescent == \A c \in Callers : qpc[c] = "idle" \/ InstanceOf(c) \in qdead

\* C9: after a process was killed during a queue operation, every stored
\* record is a complete old or new version, never a partially written one.
C9_CrashSafe ==
    (qdead # {} /\ Quiescent) =>
        \A d \in Partitions, t \in Tasks : qfs[d][t] # Partial

----------------------------------------------------------------------------
(* The life of one workflow under WorkflowManager calls *)

WorkflowInit ==
    /\ now = 0
    /\ qfs = EmptyStore
    /\ QueueIdle
    /\ NoWorkflows

StepResults == {"none", "result"}
HistoryRoom(id) == Len(wf[id].step_history) < MaxHistory

WCreate ==
    /\ WfGlob = {}
    /\ \E issue \in Issues : CreateWorkflow(issue)
    /\ UNCHANGED <<now, nonworkflow>>
WAdvance ==
    /\ \E id \in WfGlob, r \in StepResults : HistoryRoom(id) /\ AdvanceWorkflow(id, r)
    /\ UNCHANGED <<now, nonworkflow>>
WRetry ==
    /\ \E id \in WfGlob : 
         wcalls[id] < RetryCallCap /\ HistoryRoom(id) /\ RetryCurrentStep(id, "worker failed")
    /\ UNCHANGED <<now, nonworkflow>>
WMarkInProgress ==
    /\ \E id \in WfGlob : MarkStepInProgress(id, 1)
    /\ UNCHANGED <<now, nonworkflow>>
WMarkWaiting ==
    /\ \E id \in WfGlob : MarkStepWaitingForFeedback(id)
    /\ UNCHANGED <<now, nonworkflow>>
WGetNext == GetNextWorkItem /\ UNCHANGED <<now, nonworkflow>>
\* The clock counts the hours since the workflow was created.
WTick == WfGlob # {} /\ now < WfMaxTime /\ now' = now + 1 /\ UNCHANGED <<qvars, nonqueue>>

WorkflowNext ==
    \/ WCreate \/ WAdvance \/ WRetry \/ WMarkInProgress \/ WMarkWaiting
    \/ WGetNext \/ WTick

SpecWorkflow == WorkflowInit /\ [][WorkflowNext]_vars

\* C6: with max_retries = M, the k-th consecutive retry_current_step call on
\* one step leaves retry_count = k, status PENDING and returns true for every
\* k <= M; call M+1 sets status FAILED with a failure reason and returns false.
C6_RetryBudget ==
    \A id \in WfGlob :
        (wlast.op = "retry_current_step" /\ wlast.id = id) =>
            LET w == wf[id]
                k == wcalls[id]
            IN  /\ k <= w.max_retries =>
                       /\ w.retry_count = k
                       /\ w.status = "pending"
                       /\ wlast.ret = TRUE
                /\ k = w.max_retries + 1 =>
                       /\ w.status = "failed"
                       /\ w.context.failure_reason # "none"
                       /\ w.retry_count = w.max_retries
                       /\ wlast.ret = FALSE

\* The third retry_current_step call on one step of a workflow with
\* max_retries = 2 has just returned.
C6_Witness ==
    \E id \in WfGlob :
        /\ wlast = Called("retry_current_step", id, FALSE)
        /\ wf[id].max_retries = 2
        /\ wcalls[id] = 3
        /\ wf[id].status = "failed"
        /\ Len(wf[id].step_history) = 2

Overdue(w) ==
    /\ IsWorkflow(w)
    /\ w.status = "in_progress"
    /\ now - w.context.step_started_at > MaxDuration(w.current_step)

\* C5: a get_next_work_item scan routes every workflow whose current step has
\* been IN_PROGRESS for longer than the step's max_duration through
\* retry_current_step, which costs the step one retry.
C5_TimedOutStepIsRetried ==
    [][WGetNext =>
         \A id \in WfIds :
             Overdue(wf[id]) => wf'[id] = Retried(wf[id], "Workflow step timed out")]_vars

\* A scan ran while a workflow's step had been IN_PROGRESS past max_duration.
C5_OverdueScanned ==
    /\ wlast.op = "get_next_work_item"
    /\ \E id \in WfIds : Overdue(wf[id])

----------------------------------------------------------------------------
(* Two processes, each with its own WorkflowManager over the same data     *)
(* directory, apply one mutation each to the same workflow                 *)

RaceId == <<42, 0>>
Mutations == {"advance_workflow", "retry_current_step", "mark_step_in_progress",
              "mark_step_waiting_for_feedback"}

WorkerOf(p) == IF p = "p1" THEN 1 ELSE 2

\* What a mutation saves, given the record get_workflow loaded.
Mutated(op, w, p) ==
    CASE op = "advance_workflow" -> Advanced(w, "result")
      [] op = "retry_current_step" -> Retried(w, "worker failed")
      [] op = "mark_step_in_progress" -> MarkedInProgress(w, WorkerOf(p))
      [] OTHER -> MarkedWaiting(w)

\* A mutation returns False before saving when get_workflow finds nothing
\* readable, or when the step cannot wait for feedback.
Saves(op, f) ==
    /\ IsWorkflow(f)
    /\ op = "mark_step_waiting_for_feedback" => CanWaitForFeedback(f.current_step)

\* The call as one atomic read-modify-write.
Applied(op, w, p) == IF Saves(op, w) THEN Mutated(op, w, p) ELSE w

RLoad(p, op) ==
    /\ rpc[p] = "idle"
    /\ rloc[p] = NoCall
    /\ IF Saves(op, wf[RaceId])
       THEN /\ rloc' = [rloc EXCEPT ![p] = [op |-> op, w |-> Mutated(op, wf[RaceId], p),
                                            ret |-> TRUE]]
            /\ rpc' = [rpc EXCEPT ![p] = "open"]
       ELSE /\ rloc' = [rloc EXCEPT ![p] = [op |-> op, w |-> wf[RaceId], ret |-> FALSE]]
            /\ rpc' = [rpc EXCEPT ![p] = "idle"]
    /\ UNCHANGED <<now, qvars, wvars, pvars, orch, cb>>

\* _save_workflow: open(workflow_file, 'w') truncates the file ...
ROpen(p) ==
    /\ rpc[p] = "open"
    /\ wf' = [wf EXCEPT ![RaceId] = Partial]
    /\ rpc' = [rpc EXCEPT ![p] = "dump"]
    /\ UNCHANGED <<now, qvars, wlast, wcalls, rloc, pvars, orch, cb>>

\* ... and json.dump writes the record the process holds.
RDump(p) ==
    /\ rpc[p] = "dump"
    /\ wf' = [wf EXCEPT ![RaceId] = rloc[p].w]
    /\ rpc' = [rpc EXCEPT ![p] = "idle"]
    /\ UNCHANGED <<now, qvars, wlast, wcalls, rloc, pvars, orch, cb>>

RaceWorkflow == [NewWorkflow(42) EXCEPT !.created_at = 0, !.updated_at = 0]

WfRaceInit ==
    /\ now = 1
    /\ qfs = EmptyStore
    /\ QueueIdle
    /\ wf = [id \in WfIds |-> IF id = RaceId THEN RaceWorkflow ELSE Absent]
    /\ NoWorkflowCalls
    /\ NoWorkers

WfRaceNext ==
    \E p \in Procs :
        \/ \E op \in Mutations : RLoad(p, op)
        \/ ROpen(p)
        \/ RDump(p)

SpecWfRace == WfRaceInit /\ [][WfRaceNext]_vars

WfRaceDone == \A p \in Procs : rpc[p] = "idle" /\ rloc[p] # NoCall

\* C8: when two processes concurrently apply one mutation each to the same
\* workflow, the stored record equals the result of applying the two
\* mutations one after the other in some order.
C8_Serializable ==
    WfRaceDone =>
        \E p \in Procs : \E q \in Procs \ {p} :
            wf[RaceId] = Applied(rloc[q].op, Applied(rloc[p].op, RaceWorkflow, p), q)

----------------------------------------------------------------------------
(* A ContainerManager driven by one caller, over a runtime whose containers *)
(* end on their own                                                        *)

PoolInit ==
    /\ now = 0
    /\ qfs = EmptyStore
    /\ QueueIdle
    /\ NoWorkflows

PSpawnWorker == (\E t \in PoolTasks : SpawnWorker(t)) /\ UNCHANGED <<now, nonpool>>
PMonitorWorkers == MonitorWorkers /\ UNCHANGED <<now, nonpool>>
PCleanupStaleWorkers ==
    (\E timeout \in PoolTimeouts : CleanupStaleWorkers(timeout)) /\ UNCHANGED <<now, nonpool>>
PShutdown == Shutdown /\ UNCHANGED <<now, nonpool>>
PContainerEnds == (\E c \in Containers : ContainerEnds(c)) /\ UNCHANGED <<now, nonpool>>
PContainerRemoved ==
    (\E c \in Containers : ContainerRemoved(c)) /\ UNCHANGED <<now, nonpool>>
PTick == Tick /\ UNCHANGED <<nonpool, pvars>>

PoolNext ==
    \/ PSpawnWorker \/ PMonitorWorkers \/ PCleanupStaleWorkers \/ PShutdown
    \/ PContainerEnds \/ PContainerRemoved \/ PTick

SpecPool == PoolInit /\ [][PoolNext]_vars

C3_OneWorkerPerTask ==
    \A c, d \in ActiveWorkers : c # d => active[c].task_id # active[d].task_id

----------------------------------------------------------------------------
(* The orchestrator's loop, the container runtime, and direct callers of   *)
(* the pool and of the workflow manager                                    *)

\* The orchestrator enqueues nothing (enqueue_work_items has no caller), so
\* its queue directory stays as it was created.
Init ==
    /\ now = 0
    /\ qfs = EmptyStore
    /\ QueueIdle
    /\ NoWorkflows

Unhandled == <<qlock, qpc, qloc, qret, qdead, rvars, orch, cb>>

ODiscover ==
    /\ \E reported \in SUBSET Issues : RunDiscoveryCycle(reported)
    /\ UNCHANGED <<now, qfs, Unhandled>>
OProcess == RunProcessingCycle /\ UNCHANGED <<now, qfs, Unhandled>>
OCleanup == CleanupStaleResources /\ UNCHANGED <<now, wvars, Unhandled>>

\* The step's work item handed to the pool directly.
StepTasks == {StepTask(id, wf[id].current_step) : id \in {i \in WfIds : Readable(wf, i)}}
XSpawnWorker ==
    /\ \E t \in StepTasks : SpawnWorker(t)
    /\ UNCHANGED <<now, qfs, wvars, Unhandled>>
XMarkInProgress ==
    /\ \E id \in WfGlob, c \in ActiveWorkers :
          /\ active[c].task_id = StepTask(id, wf[id].current_step)
          /\ MarkStepInProgress(id, c)
    /\ UNCHANGED <<now, qfs, pvars, Unhandled>>
\* A failure of the step that is running is reported.
XRetry ==
    /\ \E id \in WfGlob : wcalls[id] < RetryCallCap /\ wf[id].status = "in_progress" /\ RetryCurrentStep(id, "worker failed")
    /\ UNCHANGED <<now, qfs, pvars, Unhandled>>
Next ==
    \/ ODiscover \/ OProcess \/ OCleanup \/ PShutdown
    \/ XSpawnWorker \/ XMarkInProgress \/ XRetry
    \/ PContainerEnds \/ PContainerRemoved

Spec == Init /\ [][Next]_vars

Reconciled(w, w2) ==
    \/ w2.current_step = NextStep(w.current_step)
    \/ w2.retry_count = w.retry_count + 1
    \/ w2.status = "failed"

Finished(c, id) ==
    /\ c \in ActiveWorkers
    /\ docker[c] \in {"exited", "removed"}
    /\ Readable(wf, id)
    /\ wf[id].status = "in_progress"
    /\ active[c].task_id = StepTask(id, wf[id].current_step)

\* C4: in the cycle that monitors the workers, the workflow that owns a worker
\* reported as exited or removed is reconciled: its step is advanced, or its
\* step is retried (one more retry, or FAILED when the budget is spent).
C4_MonitorReconciles ==
    [][OProcess =>
         \A c \in Containers, id \in WfIds :
             Finished(c, id) => Reconciled(wf[id], wf'[id])]_vars

NewWorkersFor(id) ==
    {c \in ActiveWorkers' \ ActiveWorkers :
        active'[c].task_id = StepTask(id, wf[id].current_step)}

\* C10: a processing cycle marks a step IN_PROGRESS only when it registered a
\* worker for it, and a PENDING step for which the cycle started no worker
\* is left as it was: PENDING, with the same retry_count.
C10_MarkOnlyAfterSpawn ==
    [][OProcess =>
         \A id \in WfIds :
             Readable(wf, id) =>
                 /\ (wf'[id].status = "in_progress" /\ wf[id].status # "in_progress")
                        => NewWorkersFor(id) # {}
                 /\ (wf[id].status = "pending" /\ NewWorkersFor(id) = {})
                        => wf'[id] = wf[id]]_vars

\* A processing cycle offered a step that had been retried once, its spawn
\* failed, and the step is still PENDING with that retry_count.
C10_Witness ==
    /\ plast.op = "run_processing_cycle"
    /\ plast.ret.offered.kind = "step"
    /\ plast.ret.spawned = 0
    /\ Readable(wf, plast.ret.offered.workflow_id)
    /\ wf[plast.ret.offered.workflow_id].status = "pending"
    /\ wf[plast.ret.offered.workflow_id].retry_count = 1
    /\ plast.ret.offered.retry_count = 1

----------------------------------------------------------------------------
(* Discovery cycles over workflows that callers of the WorkflowManager     *)
(* advance and retry between the cycles; the source reports every issue in *)
(* every cycle                                                             *)

DDiscover ==
    /\ stats.tasks_processed < MaxDiscovered
    /\ RunDiscoveryCycle(Issues)
    /\ UNCHANGED <<now, qfs, Unhandled>>

\* The worker of a step that is not finished reports success (with no result
\* payload); the worker of the first step may also report failure.
Unfinished(id) == Readable(wf, id) /\ wf[id].status \notin {"completed", "failed"}
DAdvance ==
    /\ \E id \in WfGlob : Unfinished(id) /\ AdvanceWorkflow(id, "none")
    /\ UNCHANGED <<now, nonworkflow>>
DRetry ==
    /\ \E id \in WfGlob :
         /\ Unfinished(id) /\ HistoryRoom(id) /\ wf[id].current_step = Steps[1]
         /\ RetryCurrentStep(id, "worker failed")
    /\ UNCHANGED <<now, nonworkflow>>

\* Time passes between the end of one workflow and the next discovery cycle.
DTick ==
    /\ WfGlob # {}
    /\ \A id \in WfGlob : ~Unfinished(id)
    /\ now < WfMaxTime
    /\ now' = now + 1
    /\ UNCHANGED <<qvars, nonqueue>>

DiscoveryNext == DDiscover \/ DAdvance \/ DRetry \/ DTick

SpecDiscovery == Init /\ [][DiscoveryNext]_vars

WorkflowsOf(store, issue) ==
    {id \in WfIds : /\ Readable(store, id)
                    /\ store[id].issue_number = issue
                    /\ store[id].repo = Repo}

Created(issue) ==
    {id \in WorkflowsOf(wf', issue) : id \notin WorkflowsOf(wf, issue) \/ wf'[id] # wf[id]}

----------------------------------------------------------------------------
(* One process with one thread uses the queue: every call runs to its end  *)
(* before the next one starts                                              *)

Sweeper == "w3"
SweepMaxRetries == {0, ItemMaxRetries}
Alone == \A c \in Callers : qpc[c] = "idle"

SEnqueue ==
    /\ \E t \in Tasks, maxr \in SweepMaxRetries : EnqOpen(Sweeper, t, maxr)
    /\ UNCHANGED nonqueue
SDequeue == DeqStart(Sweeper, CapsOf(Sweeper)) /\ UNCHANGED nonqueue

\* cleanup_stale_tasks, the whole call.
CleanupStaleTasks(c, timeout) ==
    /\ Idle(c) /\ LockFree(c)
    /\ qfs' = Swept(qfs, timeout)
    /\ qret' = [qret EXCEPT ![c] = Cleaned(SweptCount(qfs, timeout))]
    /\ UNCHANGED <<now, qlock, qpc, qloc, qdead>>

SCleanup(timeout) == CleanupStaleTasks(Sweeper, timeout) /\ UNCHANGED nonqueue

\* An item that is reclaimed max_retries times is stale max_retries + 1 times.
STick ==
    /\ Alone
    /\ now < MaxTime + ItemMaxRetries
    /\ now' = now + 1
    /\ UNCHANGED <<qvars, nonqueue>>

SweepNext ==
    \/ SEnqueue \/ EnqDump(Sweeper)
    \/ SDequeue \/ DeqRead(Sweeper) \/ DeqOpen(Sweeper) \/ DeqDump(Sweeper)
    \/ DeqUnlink(Sweeper)
    \/ (\E timeout \in Timeouts : SCleanup(timeout))
    \/ STick

SpecSweep == QueueInit /\ [][SweepNext]_vars

\* The assigned items a call with this timeout finds older than the timeout.
OlderThan(timeout) ==
    {t \in Tasks : /\ IsItem(qfs["assigned"][t])
                   /\ qfs["assigned"][t].assigned_at # NoTime
                   /\ now - qfs["assigned"][t].assigned_at > timeout}

----------------------------------------------------------------------------
(* advance_workflow along the step table *)

Position(step) == CHOOSE i \in DOMAIN Steps : Steps[i] = step

\* C13: advance_workflow on a workflow whose step is not COMPLETION moves
\* current_step to the step that follows it in the order ANALYSIS, PLANNING,
\* IMPLEMENTATION, PR_CREATION, FEEDBACK_HANDLING, COMPLETION, sets retry_count
\* to 0 and sets status to PENDING, or to COMPLETED when the new step is
\* COMPLETION; so five advances of a fresh workflow end at COMPLETION.
C13_AdvanceFollowsStepTable ==
    [][WAdvance =>
         \A id \in WfIds :
             (Readable(wf, id) /\ wf[id].current_step # "completion") =>
                 /\ wlast' = Called("advance_workflow", id, TRUE)
                 /\ Position(wf'[id].current_step) = Position(wf[id].current_step) + 1
                 /\ wf'[id].retry_count = 0
                 /\ wf'[id].status =
                        IF wf'[id].current_step = "completion" THEN "completed"
                        ELSE "pending"]_vars

\* A workflow that was retried and marked IN_PROGRESS on the way has been
\* advanced from FEEDBACK_HANDLING to COMPLETION.
C13_Witness ==
    \E id \in WfGlob :
        /\ wlast = Called("advance_workflow", id, TRUE)
        /\ wf[id].current_step = "completion"
        /\ wf[id].status = "completed"
        /\ wf[id].retry_count = 0
        /\ wf[id].context.step_started_at # NoTime
        /\ \E k \in DOMAIN wf[id].step_history : wf[id].step_history[k].status = "retry"
        /\ \E k \in DOMAIN wf[id].step_history :
              /\ wf[id].step_history[k].status = "completed"
              /\ wf[id].step_history[k].step = "feedback_handling"

\* C14: in every transition of every workflow, current_step stays the same or
\* moves to a later step of the order ANALYSIS < PLANNING < IMPLEMENTATION <
\* PR_CREATION < FEEDBACK_HANDLING < COMPLETION, and retry_current_step never
\* changes it.
C14_StepsOnlyMoveForward ==
    /\ [][\A id \in WfIds :
            Readable(wf, id) =>
                /\ Readable(wf', id)
                /\ Position(wf'[id].current_step) >= Position(wf[id].current_step)]_vars
    /\ [][WRetry =>
            \A id \in WfIds :
                Readable(wf, id) => wf'[id].current_step = wf[id].current_step]_vars

\* retry_current_step has just been called on a step later than the first
\* one and the workflow is still at that step.
C14_Witness ==
    \E id \in WfGlob :
        /\ wlast = Called("retry_current_step", id, TRUE)
        /\ wf[id].current_step = "implementation"
        /\ wf[id].retry_count = 1
        /\ wf[id].step_history # <<>>
        /\ wf[id].step_history[Len(wf[id].step_history)] =
               [step |-> "implementation", status |-> "retry", retry |-> 1]

----------------------------------------------------------------------------
(* A workflow that is suspended for feedback and cleared again by a caller *)
(* of update_workflow                                                      *)

UpdateStatuses == {"none", "pending", "waiting_for_feedback"}

FUpdate ==
    /\ \E id \in WfGlob, status \in UpdateStatuses, step_result \in {"none", "result"} :
         /\ step_result = "none" \/ Len(wf[id].step_history) < MaxHistory
         /\ UpdateWorkflow(id, status, step_result)
    /\ UNCHANGED <<now, nonworkflow>>

FeedbackNext ==
    \/ WCreate \/ DAdvance \/ WMarkInProgress \/ WMarkWaiting \/ FUpdate \/ WTick

SpecFeedback == WorkflowInit /\ [][FeedbackNext]_vars

\* C15: in every reachable state a workflow has status WAITING_FOR_FEEDBACK
\* only while its current step's StepConfig has can_wait_for_feedback = true,
\* and mark_step_waiting_for_feedback on a step that does not permit it
\* returns false and leaves the workflow unchanged.
C15_WaitingOnlyWherePermitted ==
    /\ [](\A id \in WfIds :
            (Readable(wf, id) /\ wf[id].status = "waiting_for_feedback")
                => wf[id].current_step \in {"analysis", "planning", "feedback_handling"})
    /\ [][WMarkWaiting =>
            \A id \in WfIds :
                (/\ Readable(wf, id)
                 /\ wlast'.id = id
                 /\ wf[id].current_step \in {"implementation", "pr_creation", "completion"})
                    => (wlast'.ret = FALSE /\ wf' = wf)]_vars

\* mark_step_waiting_for_feedback was refused on a step that does not permit
\* waiting.
C15_Witness ==
    \E id \in WfGlob :
        /\ wlast = Called("mark_step_waiting_for_feedback", id, FALSE)
        /\ wf[id].current_step = "implementation"
        /\ wf[id].status = "in_progress"

----------------------------------------------------------------------------
(* Items of several requirement maps offered to workers of several         *)
(* capability maps, one call at a time                                     *)

Latest == <<"latest">>
Requirements ==
    {NoReqs, NodeReq, JavaReq,
     [p \in {"nodejs"} |-> Latest],
     [p \in {"nodejs", "python"} |-> IF p = "nodejs" THEN <<"18", "16", "0">> ELSE Latest]}
Capabilities ==
    {NoReqs, NodeReq, JavaReq, PythonReq,
     [p \in {"nodejs"} |-> <<"18", "16", "2">>],
     [p \in {"nodejs"} |-> <<"16", "14", "0">>],
     [p \in {"nodejs"} |-> Latest],
     [p \in {"java"} |-> <<"17", "0">>],
     [p \in {"nodejs", "python"} |-> IF p = "nodejs" THEN <<"18", "16", "2">> ELSE <<"3", "11">>]}

CEnqueue ==
    /\ \E t \in Tasks, reqs \in Requirements : EnqOpenWith(Sweeper, t, reqs, ItemMaxRetries)
    /\ UNCHANGED nonqueue
CDequeue == (\E caps \in Capabilities : DeqStart(Sweeper, caps)) /\ UNCHANGED nonqueue

CompatNext ==
    \/ CEnqueue \/ EnqDump(Sweeper)
    \/ CDequeue \/ DeqRead(Sweeper) \/ DeqOpen(Sweeper) \/ DeqDump(Sweeper)
    \/ DeqUnlink(Sweeper)

SpecCompat == QueueInit /\ [][CompatNext]_vars

MajorMinorEqual(required, declared) ==
    /\ Len(required) >= 2 /\ Len(declared) >= 2
    /\ required[1] = declared[1] /\ required[2] = declared[2]

\* Satisfiability as the claim defines it.
Satisfiable(reqs, caps) ==
    \/ DOMAIN reqs = {}
    \/ \A p \in DOMAIN reqs :
         /\ p \in DOMAIN caps
         /\ \/ reqs[p] = caps[p]
            \/ MajorMinorEqual(reqs[p], caps[p])
            \/ reqs[p] = Latest
            \/ caps[p] = Latest

\* The pending item dequeue is looking at.
Examined(c) == qfs["pending"][Head(qloc[c].files)]

\* C16: dequeue treats an item as satisfiable by a worker exactly when the
\* item has no platform requirements, or for every required (platform,
\* version) the worker declares that platform with a version that is
\* identical, or has equal major and minor components, or either the required
\* or the declared version is "latest".
C16_SatisfiableExactlyWhen ==
    [][(DeqRead(Sweeper) /\ qloc[Sweeper].files # <<>> /\ IsItem(Examined(Sweeper))) =>
          (qpc'[Sweeper] = "deq_open"
              <=> Satisfiable(Examined(Sweeper).platform_requirements,
                              qloc[Sweeper].caps))]_vars

\* dequeue has passed over the only pending item, which requires nodejs
\* 18.16.0, for a worker that declares nodejs "latest".
C16_Witness ==
    /\ qpc[Sweeper] = "deq_read"
    /\ qloc[Sweeper].caps = [p \in {"nodejs"} |-> Latest]
    /\ qloc[Sweeper].files = <<>>
    /\ \E t \in Tasks :
          /\ Glob("pending") = {t}
          /\ IsItem(qfs["pending"][t])
          /\ qfs["pending"][t].platform_requirements = NodeReq

----------------------------------------------------------------------------
(* The order in which dequeue hands out pending items *)

\* C17: dequeue scans pending items in creation order: among the pending
\* items satisfiable by the caller's capabilities it returns the one with the
\* earliest creation time.
C17_EarliestCreatedFirst ==
    [][\A t \in Tasks :
         (DeqUnlink(Sweeper) /\ qret'[Sweeper] = Dequeued(t)) =>
             \A u \in Tasks :
                 (IsItem(qfs["pending"][u])
                    /\ IsCompatible(qfs["pending"][u], qloc[Sweeper].caps))
                     => qfs["pending"][t].created_at <= qfs["pending"][u].created_at]_vars

\* dequeue has returned one of two satisfiable pending items that were
\* created at different times.
C17_Witness ==
    \E t, u \in Tasks :
        /\ qret[Sweeper] = Dequeued(t)
        /\ IsItem(qfs["assigned"][t])
        /\ qfs["assigned"][t].assigned_at = now
        /\ IsItem(qfs["pending"][u])
        /\ IsCompatible(qfs["pending"][u], CapsOf(Sweeper))
        /\ qfs["pending"][u].created_at # qfs["assigned"][t].created_at

----------------------------------------------------------------------------
(* Forced cleanup of the pool *)

TooOld(info, timeout) == now - info.created_at > timeout

\* C18: cleanup_stale_workers(T) force-stops and deregisters every registered
\* worker whose creation time is more than T in the past, whatever its last
\* reported status: after the call no such worker remains in the active set.
C18_NoStaleWorkerRemains ==
    [][\A timeout \in PoolTimeouts :
         (CleanupStaleWorkers(timeout) /\ UNCHANGED <<now, nonpool>>) =>
             \A c \in ActiveWorkers' : ~TooOld(active'[c], timeout)]_vars

\* cleanup_stale_workers has just deregistered two workers that were older
\* than the timeout, one last reported as running and one whose container
\* had exited since.
C18_Witness ==
    /\ plast = [op |-> "cleanup_stale_workers", ret |-> 2]
    /\ ActiveWorkers = {}
    /\ \E c, d \in Containers : c # d /\ docker[c] = "exited" /\ docker[d] = "exited"
    /\ records = [w \in WorkerIds |-> NoContainer]

\* C19: shutdown() stops and deregisters every active worker: after it
\* returns, the active worker set is empty.
C19_ShutdownEmptiesPool ==
    [][PShutdown => ActiveWorkers' = {}]_vars

\* shutdown has just stopped and deregistered the two workers of a full pool.
C19_Witness ==
    /\ plast = [op |-> "shutdown", ret |-> MaxWorkers]
    /\ ActiveWorkers = {}
    /\ Cardinality({c \in Containers : docker[c] = "exited"}) >= MaxWorkers

----------------------------------------------------------------------------
(* The orchestrator process and a termination signal                       *)
(*                                                                         *)
(* start_orchestration runs the scheduled cycles in the main thread and    *)
(* sleeps between them.  signal_handler is installed for SIGINT and        *)
(* SIGTERM; it calls orchestrator.shutdown() and then sys.exit(0).  The    *)
(* signal can arrive at any point of the loop, also while a cycle is       *)
(* inside a with self._lock block of the ContainerManager, whose lock is a *)
(* threading.Lock and so cannot be taken a second time by the thread that  *)
(* holds it.                                                               *)

MainRuns == orch.handler = "none" /\ orch.exit = <<>> /\ orch.running

\* process_workflow_queue hands a work item to spawn_worker.
HSpawn == MainRuns /\ orch.main = "idle" /\ PSpawnWorker

\* run_processing_cycle reaches monitor_workers and enters with self._lock.
HEnterMonitor ==
    /\ MainRuns
    /\ orch.main = "idle"
    /\ orch' = [orch EXCEPT !.main = "locked"]
    /\ UNCHANGED <<now, qvars, wvars, rvars, active, docker, records, plast, stats, cb>>

\* the body of monitor_workers, and the lock's release at its end.
HMonitor ==
    /\ MainRuns
    /\ orch.main = "locked"
    /\ MonitorWorkers
    /\ orch' = [orch EXCEPT !.main = "idle"]
    /\ UNCHANGED <<now, qvars, wvars, rvars, cb>>

HContainerEnds == orch.exit = <<>> /\ PContainerEnds
HContainerRemoved == orch.exit = <<>> /\ PContainerRemoved

\* SIGINT or SIGTERM: signal_handler starts, and shutdown() clears running
\* and sets _shutdown_event.
HSignal ==
    /\ MainRuns
    /\ orch' = [orch EXCEPT !.handler = "shutdown", !.running = FALSE]
    /\ UNCHANGED <<now, qvars, wvars, rvars, active, docker, records, plast, stats, cb>>

\* shutdown(): self.container_manager.shutdown(), which begins with
\* with self._lock and so waits while the interrupted loop holds the lock.
HPoolShutdown ==
    /\ orch.handler = "shutdown"
    /\ orch.main # "locked"
    /\ Shutdown
    /\ orch' = [orch EXCEPT !.handler = "status", !.pool_shutdowns = @ + 1]
    /\ UNCHANGED <<now, qvars, wvars, rvars, cb>>

\* shutdown(): the final update_status(), which publishes once and keeps
\* its own errors.
HFinalStatus ==
    /\ orch.handler = "status"
    /\ orch' = [orch EXCEPT !.handler = "exit", !.publishes = @ + 1]
    /\ UNCHANGED <<now, qvars, wvars, rvars, active, docker, records, plast, stats, cb>>

\* signal_handler: sys.exit(0).  SystemExit passes the except Exception and
\* except KeyboardInterrupt clauses of the loop, so the shutdown() call that
\* follows the loop is not run a second time.
HExit ==
    /\ orch.handler = "exit"
    /\ orch' = [orch EXCEPT !.handler = "done", !.exit = <<0>>]
    /\ UNCHANGED <<now, qvars, wvars, rvars, active, docker, records, plast, stats, cb>>

ShutdownNext ==
    \/ HSpawn \/ HEnterMonitor \/ HMonitor \/ HContainerEnds \/ HContainerRemoved
    \/ HSignal \/ HPoolShutdown \/ HFinalStatus \/ HExit

\* The handler runs in the main thread and goes on whenever it is not
\* waiting for a lock.
SpecShutdown ==
    /\ PoolInit
    /\ [][ShutdownNext]_vars
    /\ WF_vars(HPoolShutdown) /\ WF_vars(HFinalStatus) /\ WF_vars(HExit)

Signalled == orch.handler # "none"

\* What the handler does when the loop was not holding the pool's lock.
ShutdownCompletesWhenLockFree ==
    (Signalled /\ orch.main = "idle") ~> (orch.exit = <<0>>)

\* C20: once a termination signal has arrived the loop starts no further
\* cycle; the pool is shut down before the final status publish, the
\* process exits only after exactly one pool shutdown and exactly one
\* publish, with code 0; and every signal leads to that exit.
C20_GracefulShutdown ==
    /\ [][Signalled => ~(HSpawn \/ HEnterMonitor \/ HMonitor)]_vars
    /\ [](orch.publishes > 0 => orch.pool_shutdowns = 1)
    /\ [](orch.exit # <<>> =>
            orch.exit = <<0>> /\ orch.pool_shutdowns = 1 /\ orch.publishes = 1)
    /\ (Signalled ~> (orch.exit = <<0>>))

\* The signal has arrived while a cycle was inside monitor_workers: the
\* handler is at container_manager.shutdown() and the lock it needs is held
\* by the loop it interrupted, with a worker still registered.
C20_Witness ==
    /\ orch.handler = "shutdown"
    /\ orch.main = "locked"
    /\ orch.exit = <<>>
    /\ ActiveIn(Pool) # {}

----------------------------------------------------------------------------
(* The orchestrator process is restarted over the same data directory     *)

\* ContainerManager.__init__ in the new process: active_workers starts as
\* an empty dict and the workers directory is only created if missing; the
\* record files in it are not read.  The containers, started detached, and
\* the record files outlive the old process.
Restarted(P) == [P EXCEPT !.active = [c \in Containers |-> NoInfo]]

Restart == SetPool([pool |-> Restarted(Pool), ret |-> NoContainer], "__init__")

PRestart == Restart /\ UNCHANGED <<now, nonpool>>

RestartNext ==
    \/ PSpawnWorker \/ PMonitorWorkers \/ PContainerEnds \/ PContainerRemoved
    \/ PRestart

SpecRestart == PoolInit /\ [][RestartNext]_vars

\* The workers that have a record file whose container is still running.
Recorded(P) == {c \in Containers : P.docker[c] = "running" /\
                    \E w \in WorkerIds : P.records[w] = c}

\* C21: after a restart every worker that was in flight before it and has a
\* persisted record is again tracked as an active worker, and so counts
\* against max_workers.
C21_RestartRediscovers ==
    [][PRestart => \A c \in ActiveWorkers \cap Recorded(Pool) :
                       c \in ActiveWorkers']_vars

\* The process has just been restarted while two workers with record files
\* were running: none is tracked, and the pool reports room for more.
C21_Witness ==
    /\ plast.op = "__init__"
    /\ Cardinality(Recorded(Pool)) = MaxWorkers
    /\ ActiveWorkers = {}
    /\ CanSpawnWorker(Pool)

----------------------------------------------------------------------------
(* monitor_workers: what it returns and whom it deregisters                *)

Terminal == {"exited", "dead", "removed"}

\* The worker's live status differs from the one seen at the previous poll
\* (or at registration); a container the runtime no longer knows is reported
\* as removed.
StatusChanged(c) == docker[c] = "removed" \/ docker[c] # active[c].status

Reports(updates, t, status) ==
    \E i \in 1 .. Len(updates) : updates[i] = [task |-> t, status |-> status]

\* C22: monitor_workers returns an entry task id -> live status for every
\* tracked worker whose live status differs from the status seen at the
\* previous poll, and every worker found exited, dead or removed is taken
\* out of the active set and its record file is deleted.
C22_MonitorReportsAndDeregisters ==
    [][PMonitorWorkers =>
         \A c \in ActiveWorkers :
             /\ StatusChanged(c) => Reports(plast'.ret, active[c].task_id, docker[c])
             /\ docker[c] \in Terminal =>
                    /\ c \notin ActiveWorkers'
                    /\ records'[active[c].worker_id] = NoContainer]_vars

\* monitor_workers has just reported two workers of different tasks, one
\* exited and one removed, and deregistered both.
C22_Witness ==
    /\ plast.op = "monitor_workers"
    /\ Len(plast.ret) = 2
    /\ \E i, j \in 1 .. 2 : plast.ret[i].status = "exited" /\ plast.ret[j].status = "removed"
    /\ ActiveWorkers = {}
    /\ records = [w \in WorkerIds |-> NoContainer]

----------------------------------------------------------------------------
(* get_next_work_item and the workflows it passes over                     *)

Returned == wlast.op = "get_next_work_item" /\ wlast.ret # NoItem

MaxScanned == 2

\* Two workflows in the directory, created at different seconds.
NCreate ==
    /\ Cardinality(WfGlob) < MaxScanned
    /\ \E issue \in Issues : wf[<<issue, now>>] = Absent /\ CreateWorkflow(issue)
    /\ UNCHANGED <<now, nonworkflow>>

\* A workflow file is left cut short (a writer died between open(file, 'w')
\* and the end of json.dump), so json.load raises on it.
NCorrupt ==
    /\ \E id \in WfGlob : Readable(wf, id) /\ wf' = [wf EXCEPT ![id] = Partial]
    /\ UNCHANGED <<now, qvars, wlast, wcalls, rvars, pvars, orch, cb>>

\* Time passes between the two creations.
NTick ==
    /\ Cardinality(WfGlob) = 1
    /\ \A id \in WfGlob : id[2] = now
    /\ now' = now + 1
    /\ UNCHANGED <<qvars, nonqueue>>

ScanNext ==
    \/ NCreate \/ NCorrupt \/ NTick
    \/ WMarkInProgress \/ WMarkWaiting \/ DAdvance \/ WGetNext

SpecScan == WorkflowInit /\ [][ScanNext]_vars

\* C23: the workflow that get_next_work_item returns had status PENDING when
\* the call was made and still has it afterwards; a workflow in any other
\* status is never returned.
C23_OnlyPendingReturned ==
    [][(WGetNext /\ wlast'.ret # NoItem) =>
           /\ Readable(wf, wlast'.id)
           /\ wf[wlast'.id].status = "pending"
           /\ wf'[wlast'.id].status = "pending"]_vars

\* get_next_work_item has returned one workflow while another one, waiting
\* for feedback, was in the directory and was passed over.
C23_Witness ==
    /\ Returned
    /\ \E id \in WfGlob : id # wlast.id /\ Readable(wf, id) /\
           wf[id].status = "waiting_for_feedback"

----------------------------------------------------------------------------
(* The step history                                                        *)

CompletionEntry(w) == [step |-> w.current_step, status |-> "completed", retry |-> 0]

\* C24: every advance_workflow call that returns true appends exactly one
\* entry, for the step just completed, to step_history, whatever step_result
\* was passed.
C24_AdvanceAppendsOneEntry ==
    [][(WAdvance /\ wlast'.ret = TRUE) =>
           wf'[wlast'.id].step_history =
               Append(wf[wlast'.id].step_history, CompletionEntry(wf[wlast'.id]))]_vars

\* advance_workflow has been called twice with a result on a fresh workflow:
\* the history holds the completion entries of analysis and planning.
C24_Witness ==
    /\ wlast.op = "advance_workflow"
    /\ wlast.ret = TRUE
    /\ wf[wlast.id].current_step = "implementation"
    /\ wf[wlast.id].step_history =
           <<[step |-> "analysis", status |-> "completed", retry |-> 0],
             [step |-> "planning", status |-> "completed", retry |-> 0]>>

----------------------------------------------------------------------------
(* The audit trail of the queue                                            *)

\* get_task(task_id) returns the item: the first partition that has the
\* file is read, and the file parses.
TaskFound(t) == FoundIn(t) # "nowhere" /\ IsItem(qfs[FoundIn(t)][t])

AllReturned == Quiescent /\ qdead = {}

Stored(t) == \E d \in Partitions : Exists(qfs[d][t])

\* C25: a work item is never hard-deleted: once a file of a task id is
\* stored in some partition, no step of a dequeue, update_status or
\* cleanup_stale_tasks call leaves the id without a file in every partition,
\* so get_task keeps finding it.
C25_NeverHardDeleted ==
    [][\A t \in QTasks : Stored(t) => Stored(t)']_vars

\* The item went through dequeue and two status reports and is kept in the
\* completed partition.
C25_Witness ==
    /\ AllReturned
    /\ \E t \in QTasks :
         /\ FoundIn(t) = "completed"
         /\ TaskFound(t)
         /\ qfs["completed"][t].status = "completed"
         /\ \A d \in Partitions \ {"completed"} : ~Exists(qfs[d][t])

----------------------------------------------------------------------------
(* Every WorkflowManager operation, called by the orchestrator's one       *)
(* thread, on one workflow                                                 *)

HistoryNext ==
    \/ WCreate \/ WAdvance \/ WRetry \/ WMarkInProgress \/ WMarkWaiting
    \/ FUpdate \/ WGetNext

SpecHistory == WorkflowInit /\ [][HistoryNext]_vars

IsPrefix(s, t) == Len(s) <= Len(t) /\ \A i \in 1 .. Len(s) : t[i] = s[i]

\* C26: step_history is append-only: every operation leaves the entries a
\* stored workflow already has unchanged and in order, so the history before
\* the operation is a prefix of the history after it.
C26_HistoryAppendOnly ==
    [][\A id \in WfIds :
         Readable(wf, id) =>
             /\ Readable(wf', id)
             /\ IsPrefix(wf[id].step_history, wf'[id].step_history)]_vars

\* A history that grew by a retry, a completion and an update_workflow
\* result, in that order.
C26_Witness ==
    \E id \in WfGlob :
        /\ Readable(wf, id)
        /\ Len(wf[id].step_history) = 3
        /\ wf[id].step_history[1].status = "retry"
        /\ wf[id].step_history[2].status = "completed"
        /\ wf[id].step_history[3].status = "none"
        /\ wlast.op = "update_workflow"

----------------------------------------------------------------------------
(* Scans over directories that hold unreadable files                       *)

KEnqueue ==
    /\ \E t \in Tasks : EnqOpen(Sweeper, t, ItemMaxRetries)
    /\ UNCHANGED nonqueue

\* A pending file is left cut short, so json.load raises on it.
KCorruptItem ==
    /\ Alone
    /\ \E t \in Tasks : /\ IsItem(qfs["pending"][t])
                        /\ qfs' = [qfs EXCEPT !["pending"][t] = Partial]
    /\ UNCHANGED <<now, qlock, qpc, qloc, qret, qdead, nonqueue>>

KDequeue == DeqStart(Sweeper, CapsOf(Sweeper)) /\ UNCHANGED nonqueue

CorruptNext ==
    \/ KEnqueue \/ EnqDump(Sweeper) \/ KCorruptItem
    \/ KDequeue \/ DeqRead(Sweeper) \/ DeqOpen(Sweeper) \/ DeqDump(Sweeper)
    \/ DeqUnlink(Sweeper)
    \/ NCreate \/ NTick \/ NCorrupt \/ WGetNext

SpecCorrupt == QueueInit /\ [][CorruptNext]_vars

DequeueStep ==
    DeqRead(Sweeper) \/ DeqOpen(Sweeper) \/ DeqDump(Sweeper) \/ DeqUnlink(Sweeper)

Offered(caps) ==
    {t \in Tasks : IsItem(qfs["pending"][t]) /\ IsCompatible(qfs["pending"][t], caps)}

\* C27: an unreadable record is skipped and the scan goes on: dequeue
\* returns nothing only when no readable pending item is compatible, and
\* get_next_work_item returns nothing only when no readable workflow is
\* PENDING, however many unreadable files the directory holds; the
\* unreadable files themselves are left as they are.
C27_CorruptRecordsSkipped ==
    /\ [][(DequeueStep /\ qret'[Sweeper] = Dequeued("none") /\ qpc'[Sweeper] = "idle")
             => Offered(qloc[Sweeper].caps) = {}]_vars
    /\ [][DequeueStep =>
             \A t \in Tasks : qfs["pending"][t] = Partial => qfs'["pending"][t] = Partial]_vars
    /\ [][WGetNext =>
             /\ wlast'.ret = NoItem =>
                    \A id \in WfGlob : Readable(wf, id) => wf[id].status # "pending"
             /\ \A id \in WfGlob : wf[id] = Partial => wf'[id] = Partial]_vars

\* dequeue has returned t2 although the file of t1, which sorts first, is
\* unreadable, and get_next_work_item has returned a workflow although the
\* other workflow file is unreadable.
C27_Witness ==
    /\ qret[Sweeper] = Dequeued("t2")
    /\ qfs["pending"]["t1"] = Partial
    /\ IsItem(qfs["assigned"]["t2"])
    /\ wlast.op = "get_next_work_item"
    /\ wlast.ret # NoItem
    /\ \E id \in WfGlob : wf[id] = Partial

----------------------------------------------------------------------------
(* CircuitBreaker around a function that may raise                         *)

FailureThreshold == 2
RecoveryTimeout == 2
BreakerMaxTime == 6

OnSuccessKeepsCount(b) == [b EXCEPT !.state = "CLOSED"]

OnSuccess(b) == [b EXCEPT !.failure_count = 0, !.state = "CLOSED"]

OnFailureOpensLate(b) ==
    [b EXCEPT !.failure_count = @ + 1,
              !.last_failure_time = now,
              !.state = IF b.failure_count + 1 > FailureThreshold THEN "OPEN" ELSE @]

OnFailure(b) ==
    [b EXCEPT !.failure_count = @ + 1,
              !.last_failure_time = now,
              !.state = IF b.failure_count + 1 >= FailureThreshold THEN "OPEN" ELSE @]

\* The wrapped function is called and returns (outcome "ok") or raises an
\* Exception (outcome "error").
Invoked(b, outcome) ==
    IF outcome = "ok"
    THEN [OnSuccess(b) EXCEPT !.streak = 0, !.result = "ok", !.invoked = TRUE]
    ELSE [OnFailure(b) EXCEPT !.streak = b.streak + 1, !.result = "error",
                              !.invoked = TRUE]

\* wrapper(*args, **kwargs)
Wrapped(b, outcome) ==
    IF b.state = "OPEN"
    THEN IF now - b.last_failure_time > RecoveryTimeout
         THEN Invoked([b EXCEPT !.state = "HALF_OPEN"], outcome)
         ELSE [b EXCEPT !.result = "rejected", !.invoked = FALSE]
    ELSE Invoked(b, outcome)

BreakerFrame ==
    UNCHANGED <<qvars, wvars, rvars, pvars, orch>>

BCall ==
    /\ \E outcome \in {"ok", "error"} : cb' = Wrapped(cb, outcome)
    /\ UNCHANGED now
    /\ BreakerFrame

BTick ==
    /\ now < BreakerMaxTime
    /\ now' = now + 1
    /\ UNCHANGED cb
    /\ BreakerFrame

BreakerNext == BCall \/ BTick

SpecBreaker == QueueInit /\ [][BreakerNext]_vars

\* C28: once failure_threshold consecutive calls of the wrapped function
\* have failed the breaker is OPEN, and a call made through an OPEN breaker
\* before recovery_timeout has passed since the last failure is rejected with
\* the circuit-breaker error and does not call the wrapped function.
C28_BreakerIsolates ==
    /\ [](cb.streak >= FailureThreshold => cb.state = "OPEN")
    /\ [][(BCall /\ cb.state = "OPEN" /\ now - cb.last_failure_time < RecoveryTimeout)
             => (cb'.result = "rejected" /\ ~cb'.invoked /\ cb'.state = "OPEN")]_vars

\* The breaker opened by FailureThreshold failures in a row has just
\* rejected a call made within the recovery timeout.
C28_Witness ==
    /\ cb.state = "OPEN"
    /\ cb.streak = FailureThreshold
    /\ cb.result = "rejected"
    /\ ~cb.invoked
    /\ now - cb.last_failure_time < RecoveryTimeout

----------------------------------------------------------------------------
(* A workflow just created, and the next get_next_work_item call           *)

IsFresh(w) ==
    /\ IsWorkflow(w)
    /\ w.current_step = "analysis"
    /\ w.status = "pending"
    /\ w.step_history = <<>>
    /\ w.retry_count = 0

JustCreated == wlast.op = "create_workflow" /\ Readable(wf, wlast.id)

OtherPending(id) ==
    {o \in WfGlob \ {id} : Readable(wf, o) /\ wf[o].status = "pending"}

\* C29 as stated: create_workflow stores a workflow at step ANALYSIS, status
\* PENDING, with empty history and retry_count 0, and the next
\* get_next_work_item call returns that workflow as an analysis step.
C29_CreatedIsReturnedNext ==
    /\ [][NCreate => IsFresh(wf'[wlast'.id])]_vars
    /\ [][(WGetNext /\ JustCreated) =>
             wlast'.ret = StepItem(wlast.id, wf[wlast.id])]_vars

\* C29, amended: create_workflow stores such a workflow, and the next
\* get_next_work_item call returns a step of some PENDING workflow; it is the
\* analysis step of the new workflow whenever no other workflow in the
\* directory is PENDING.
C29_CreatedIsOffered ==
    /\ [][NCreate => IsFresh(wf'[wlast'.id])]_vars
    /\ [][(WGetNext /\ JustCreated) =>
             /\ wlast'.ret # NoItem
             /\ Readable(wf, wlast'.id)
             /\ wf[wlast'.id].status = "pending"
             /\ wlast'.ret = StepItem(wlast'.id, wf[wlast'.id])
             /\ OtherPending(wlast.id) = {} =>
                    /\ wlast'.id = wlast.id
                    /\ wlast'.ret.workflow_step = "analysis"
                    /\ wlast'.ret.retry_count = 0]_vars

\* get_next_work_item has returned the analysis step of the workflow created
\* last, the older workflow in the directory being in progress.
C29_Witness ==
    /\ wlast.op = "get_next_work_item"
    /\ wlast.ret # NoItem
    /\ wlast.ret.workflow_step = "analysis"
    /\ IsFresh(wf[wlast.id])
    /\ \E o \in WfGlob : /\ Readable(wf, o) /\ o[2] < wlast.id[2]
                         /\ wf[o].status = "in_progress"

----------------------------------------------------------------------------
(* The sweep over a directory that holds ASSIGNED and IN_PROGRESS items     *)

ROwner == Sweeper

RUpdateStatus ==
    /\ \E call \in NextReports(ROwner) : UpdStart(ROwner, call.task, call)
    /\ UNCHANGED nonqueue

ReportNext ==
    \/ SEnqueue \/ EnqDump(Sweeper)
    \/ SDequeue \/ DeqRead(Sweeper) \/ DeqOpen(Sweeper) \/ DeqDump(Sweeper)
    \/ DeqUnlink(Sweeper)
    \/ RUpdateStatus \/ UpdOpen(ROwner) \/ UpdDump(ROwner) \/ UpdUnlink(ROwner)
    \/ (\E timeout \in Timeouts : SCleanup(timeout))
    \/ STick

SpecReport == QueueInit /\ [][ReportNext]_vars

\* The items the claim lets the sweep change.
StaleAssigned(timeout) ==
    {t \in OlderThan(timeout) : qfs["assigned"][t].status = "assigned"}

\* C30: cleanup_stale_tasks changes only items whose status is ASSIGNED and
\* whose assigned_at is older than the timeout; every other stored item, an
\* IN_PROGRESS one included, is the same after the call as before it.
C30_SweepTouchesOnlyStaleAssigned ==
    [][\A timeout \in Timeouts :
         SCleanup(timeout) =>
             \A d \in Partitions, t \in Tasks :
                 (IsItem(qfs[d][t]) /\ ~(d = "assigned" /\ t \in StaleAssigned(timeout)))
                     => qfs'[d][t] = qfs[d][t]]_vars

\* The sweep has just requeued a stale ASSIGNED item and left alone an item
\* that a worker reported IN_PROGRESS within the timeout.
C30_Witness ==
    /\ qret[Sweeper].op = "cleanup"
    /\ \E t, u \in Tasks :
         /\ IsItem(qfs["pending"][t])
         /\ qfs["pending"][t].status = "retry"
         /\ IsItem(qfs["assigned"][u])
         /\ qfs["assigned"][u].status = "in_progress"
         /\ qfs["assigned"][u].assigned_at = now

----------------------------------------------------------------------------
(* Calls on a workflow that has ended                                      *)

Ended(w) == w.status \in {"completed", "failed"}

StatusOperations ==
    {"advance_workflow", "retry_current_step", "mark_step_in_progress",
     "mark_step_waiting_for_feedback"}

\* C31: COMPLETED and FAILED are absorbing: no advance_workflow,
\* retry_current_step, mark_step_in_progress or mark_step_waiting_for_feedback
\* call on a workflow that is COMPLETED or FAILED changes its status or its
\* current_step.
C31_EndedIsAbsorbing ==
    [][\A id \in WfGlob :
          (Readable(wf, id) /\ Ended(wf[id]) /\ wlast'.op \in StatusOperations) =>
              /\ wf'[id].status = wf[id].status
              /\ wf'[id].current_step = wf[id].current_step]_vars

\* mark_step_waiting_for_feedback has been called on a workflow that had
\* completed: the completion step cannot wait, the call returns false and the
\* workflow is still COMPLETED.
C31_Witness ==
    /\ wlast.op = "mark_step_waiting_for_feedback"
    /\ wlast.ret = FALSE
    /\ Readable(wf, wlast.id)
    /\ wf[wlast.id].status = "completed"
    /\ wf[wlast.id].current_step = "completion"

----------------------------------------------------------------------------
(* Spawns that fail                                                        *)

Running(P) == {c \in Containers : P.docker[c] = "running"}

\* C32: a failed spawn has no side effect on the pool: whenever spawn_worker
\* returns no worker id, the registered active workers are the same as
\* before the call and no new container is left running.
C32_FailedSpawnLeavesPoolAlone ==
    [][(PSpawnWorker /\ plast'.ret = NoContainer) =>
           /\ active' = active
           /\ Running(Pool') \subseteq Running(Pool)]_vars

\* The image could not be ensured or the runtime refused to run the
\* container while the pool was empty: nothing is registered, nothing runs.
C32_Witness ==
    /\ plast.op = "spawn_worker"
    /\ plast.ret = NoContainer
    /\ ActiveWorkers = {}
    /\ \A c \in Containers : docker[c] = "unused"
    /\ \A w \in WorkerIds : records[w] = NoContainer

----------------------------------------------------------------------------
(* The worker records of a pool that runs the steps of two workflows      *)

RecordTasks ==
    {PlainTask("t1"), StepTask(<<42, 0>>, "analysis"), StepTask(<<42, 1>>, "analysis")}

\* The caller hands a task to the pool only while no registered worker is
\* bound to it.
RSpawnWorker ==
    /\ \E t \in RecordTasks :
          /\ \A c \in ActiveWorkers : active[c].task_id # t
          /\ SpawnWorker(t)
    /\ UNCHANGED <<now, nonpool>>

RecordNext ==
    \/ RSpawnWorker \/ PMonitorWorkers \/ PCleanupStaleWorkers
    \/ PContainerEnds \/ PContainerRemoved \/ PTick

SpecRecords == PoolInit /\ [][RecordNext]_vars

\* The record file named after the worker's id holds this worker's container.
HasOwnRecord(P, c) == P.records[P.active[c].worker_id] = c

\* C33: every worker registered by a spawn_worker call that returned its id
\* has its own record, and a step that registers or deregisters another
\* worker leaves that record intact: a worker that stays registered keeps
\* the record it had, whatever task ids the workers are bound to.
C33_RecordsAreSeparate ==
    [][/\ \A c \in ActiveWorkers' :
            (RSpawnWorker /\ plast'.ret = c) => HasOwnRecord(Pool', c)
       /\ \A c \in ActiveWorkers \cap ActiveWorkers' :
            HasOwnRecord(Pool, c) => HasOwnRecord(Pool', c)]_vars

\* Two workers with different worker ids were registered; the first has
\* been deregistered by monitor_workers and the second still has its record.
C33_Witness ==
    /\ plast.op = "monitor_workers"
    /\ \E c, d \in Containers :
          /\ c # d
          /\ docker[c] \in {"exited", "removed"}
          /\ c \notin ActiveWorkers
          /\ d \in ActiveWorkers
          /\ active[d].worker_id = "workflow"
          /\ records["t1"] = NoContainer
          /\ HasOwnRecord(Pool, d)

----------------------------------------------------------------------------
(* Termination of the shutdown sequence                                    *)

\* The next step of signal_handler: the pool's shutdown, the final status
\* publish, or sys.exit.
HandlerStep == HPoolShutdown \/ HFinalStatus \/ HExit

\* C34: shutdown always terminates: after a termination signal, arrived at
\* any point of a running cycle (also inside a section that holds the
\* pool's mutex), the shutdown sequence has either run to completion or can
\* take its next step; it is never blocked.
C34_ShutdownNeverBlocks ==
    Signalled => (orch.handler = "done" \/ ENABLED HandlerStep)

\* The signal arrived while a worker was registered and the loop held no
\* lock: the pool was shut down, the status published, the process exited.
C34_Witness ==
    /\ orch.handler = "done"
    /\ orch.exit = <<0>>
    /\ orch.main = "idle"
    /\ orch.pool_shutdowns = 1
    /\ orch.publishes = 1
    /\ plast.op = "shutdown"
    /\ plast.ret > 0

----------------------------------------------------------------------------
(* Items that have reached a terminal status                               *)

TerminalCopies(t) ==
    {d \in Partitions : IsItem(qfs[d][t]) /\ qfs[d][t].status \in {"completed", "failed"}}

\* A step of the orchestrator's cleanup_stale_tasks that writes a file.
SweepWrites ==
    ClnOpen(Orchestrator) \/ ClnDump(Orchestrator) \/ ClnUnlink(Orchestrator)

\* C35: a work item that has reached COMPLETED or FAILED is never modified
\* by cleanup_stale_tasks (its terminal record stays as it is and no pending
\* copy of it is written) and is never returned by dequeue, under any
\* interleaving of the orchestrator's sweep with the worker's update_status
\* calls.
C35_TerminalItemsAreLeftAlone ==
    [][\A t \in QTasks :
         TerminalCopies(t) # {} =>
           /\ SweepWrites =>
                \A d \in Partitions \ {"assigned"} : qfs'[d][t] = qfs[d][t]
           /\ \A c \in Callers :
                (DeqUnlink(c) /\ qret'[c] = Dequeued(t)) => FALSE]_vars

\* The worker reported COMPLETED, and a sweep that started afterwards ran to
\* its end: the item is in the completed partition only, as reported.
C35_Witness ==
    /\ qdead = {}
    /\ qret[Orchestrator].op = "cleanup"
    /\ qret[Worker] = StatusUpdated("t1", "completed", TRUE)
    /\ qpc[Orchestrator] = "idle"
    /\ TerminalCopies("t1") = {"completed"}
    /\ \A d \in Partitions \ {"completed"} : ~Exists(qfs[d]["t1"])
    /\ now = MaxTime

----------------------------------------------------------------------------
(* Who the stored assignment names                                         *)

\* The callers whose dequeue call returned item t.
Receivers(t) == {c \in Callers : qret[c] = Dequeued(t)}

\* C36: the stored assignment names the worker that received the item: for
\* every item in the assigned partition, assigned_to is the worker id of the
\* dequeue call that returned that item, under any interleaving of
\* concurrent dequeue calls.
C36_AssignmentNamesReceiver ==
    \A t \in Tasks :
        (IsItem(qfs["assigned"][t]) /\ Receivers(t) # {}) =>
            qfs["assigned"][t].assigned_to \in Receivers(t)

\* All three calls have returned; w2 received t1 and the stored assignment
\* names w2.
C36_Witness ==
    /\ RaceDone
    /\ Receivers("t1") = {"w2"}
    /\ IsItem(qfs["assigned"]["t1"])
    /\ qfs["assigned"]["t1"].assigned_to = "w2"
    /\ qfs["assigned"]["t1"].status = "assigned"
    /\ ~Exists(qfs["pending"]["t1"])

----------------------------------------------------------------------------
(* Workflows created for a pair over its whole life                        *)

\* C37: for each (repository, issue) pair at most one workflow is ever
\* created: a discovery cycle creates a workflow only for a pair that has
\* none, also when the pair's workflow has reached COMPLETED or FAILED and
\* the source still reports the issue.
C37_OneWorkflowPerPairEver ==
    [][DDiscover =>
         \A i \in Issues : Created(i) # {} => WorkflowsOf(wf, i) = {}]_vars

\* The pair's workflow FAILED, time passed, and the cycle that followed
\* found the issue reported again and created nothing.
C37_Witness ==
    /\ plast = [op |-> "run_discovery_cycle", ret |-> 0]
    /\ stats.tasks_processed = 1
    /\ \E id \in WfIds :
          /\ WorkflowsOf(wf, 42) = {id}
          /\ wf[id].status = "failed"
          /\ now > wf[id].created_at
          /\ now > wf[id].updated_at

----------------------------------------------------------------------------
(* Retry counters of a work item and of a workflow                         *)

TEnqueue ==
    /\ \E t \in QTasks, maxr \in SweepMaxRetries : EnqOpen(Sweeper, t, maxr)
    /\ UNCHANGED nonqueue

RetryNext ==
    \/ TEnqueue \/ EnqDump(Sweeper)
    \/ SDequeue \/ DeqRead(Sweeper) \/ DeqOpen(Sweeper) \/ DeqDump(Sweeper)
    \/ DeqUnlink(Sweeper)
    \/ (\E timeout \in Timeouts : SCleanup(timeout))
    \/ STick
    \/ WCreate \/ WRetry \/ WAdvance

SpecRetry == QueueInit /\ [][RetryNext]_vars

WithinBudget(r) == 0 <= r.retry_count /\ r.retry_count <= r.max_retries

\* C38: in every reachable state 0 <= retry_count <= max_retries holds for
\* every stored work item and for every workflow, after any sequence of
\* cleanup_stale_tasks, retry_current_step and advance_workflow calls.
C38_RetryCountWithinBudget ==
    /\ \A d \in Partitions, t \in Tasks : IsItem(qfs[d][t]) => WithinBudget(qfs[d][t])
    /\ \A id \in WfIds : Readable(wf, id) => WithinBudget(wf[id])

\* The item was reclaimed until the sweep marked it FAILED with its retries
\* used up, and the workflow was advanced and then retried until it FAILED
\* with its retries used up.
C38_Witness ==
    /\ IsItem(qfs["failed"]["t1"])
    /\ qfs["failed"]["t1"].max_retries = ItemMaxRetries
    /\ qfs["failed"]["t1"].retry_count = ItemMaxRetries
    /\ \E id \in WfGlob :
          /\ Readable(wf, id)
          /\ wf[id].status = "failed"
          /\ wf[id].current_step = "planning"
          /\ wf[id].retry_count = WorkflowMaxRetries
          /\ wf[id].max_retries = WorkflowMaxRetries

----------------------------------------------------------------------------
(* An item that is handed out again and again and never reported on        *)
(*                                                                         *)
(* Workers keep calling dequeue, the orchestrator's schedule keeps calling *)
(* cleanup_stale_resources, and time passes while an assignment is fresh.  *)

RequeueMaxTime == Cardinality(Tasks) * (ItemMaxRetries + 1)

FreshlyAssigned ==
    {t \in Tasks : IsItem(qfs["assigned"][t]) /\ qfs["assigned"][t].assigned_at = now}

\* An assignment outlives the timeout.
YTick ==
    /\ Alone
    /\ FreshlyAssigned # {}
    /\ now < RequeueMaxTime
    /\ now' = now + 1
    /\ UNCHANGED <<qvars, nonqueue>>

YCleanup == \E timeout \in Timeouts : SCleanup(timeout)

RequeueNext ==
    \/ SEnqueue \/ EnqDump(Sweeper)
    \/ SDequeue \/ DeqRead(Sweeper) \/ DeqOpen(Sweeper) \/ DeqDump(Sweeper)
    \/ DeqUnlink(Sweeper)
    \/ YCleanup
    \/ YTick

SpecRequeue ==
    /\ QueueInit
    /\ [][RequeueNext]_vars
    /\ WF_vars(EnqDump(Sweeper))
    /\ WF_vars(DeqRead(Sweeper)) /\ WF_vars(DeqOpen(Sweeper))
    /\ WF_vars(DeqDump(Sweeper)) /\ WF_vars(DeqUnlink(Sweeper))
    /\ SF_vars(SDequeue) /\ SF_vars(YCleanup) /\ SF_vars(YTick)

Waiting(t) == IsItem(qfs["pending"][t]) \/ IsItem(qfs["assigned"][t])

MarkedFailed(t) ==
    /\ IsItem(qfs["failed"][t])
    /\ qfs["failed"][t].status = "failed"
    /\ ~Exists(qfs["pending"][t])
    /\ ~Exists(qfs["assigned"][t])

\* C39: queue-level retry is bounded.  Every requeue by cleanup_stale_tasks
\* raises the item's retry_count by one and never beyond max_retries, so an
\* item is requeued at most max_retries times; the reclamation that follows
\* the last requeue marks it FAILED; a FAILED item stays FAILED; and an item
\* that is dequeued again after every reclamation and never reported on
\* reaches FAILED.
C39_QueueRetryIsBounded ==
    /\ [][YCleanup =>
            \A t \in Tasks :
               LET old == qfs["assigned"][t]
               IN  /\ (IsItem(qfs'["pending"][t]) /\ ~IsItem(qfs["pending"][t])) =>
                         /\ qfs'["pending"][t].retry_count = old.retry_count + 1
                         /\ qfs'["pending"][t].retry_count <= old.max_retries
                   /\ (t \in OlderThan(0) /\ old.retry_count = old.max_retries) =>
                         MarkedFailed(t)']_vars
    /\ [][\A t \in Tasks : MarkedFailed(t) => MarkedFailed(t)']_vars
    /\ \A t \in Tasks : Waiting(t) ~> MarkedFailed(t)

\* An item with max_retries = ItemMaxRetries was requeued that many times
\* and the reclamation after its last assignment marked it FAILED.
C39_Witness ==
    /\ qret[Sweeper].op = "cleanup"
    /\ MarkedFailed("t1")
    /\ qfs["failed"]["t1"].max_retries = ItemMaxRetries
    /\ qfs["failed"]["t1"].retry_count = ItemMaxRetries
    /\ qfs["failed"]["t1"].assigned_at = ItemMaxRetries
    /\ qfs["failed"]["t1"].completed_at = ItemMaxRetries + 1

----------------------------------------------------------------------------
(* Recovery of the circuit breaker                                         *)

\* The breaker is OPEN and more than recovery_timeout has passed since the
\* last failure.
Recoverable(b) == b.state = "OPEN" /\ now - b.last_failure_time > RecoveryTimeout

\* C40: once recovery_timeout has elapsed in state OPEN the next call is let
\* through as a probe; a probe that succeeds leaves the breaker CLOSED with
\* failure_count 0, a probe that fails leaves it OPEN again at once; a
\* success in CLOSED resets failure_count to 0; so the breaker leaves CLOSED
\* for OPEN only on failure_threshold consecutive failures.
C40_BreakerRecovers ==
    /\ [][(BCall /\ Recoverable(cb)) =>
             /\ cb'.invoked
             /\ cb'.result = "ok" => (cb'.state = "CLOSED" /\ cb'.failure_count = 0)
             /\ cb'.result = "error" =>
                    (cb'.state = "OPEN" /\ cb'.last_failure_time = now)]_vars
    /\ [][(BCall /\ cb.state = "CLOSED") =>
             /\ cb'.invoked
             /\ cb'.result = "ok" => (cb'.state = "CLOSED" /\ cb'.failure_count = 0)
             /\ cb'.state = "OPEN" =>
                    (cb'.result = "error" /\ cb'.streak >= FailureThreshold)]_vars
    /\ [](cb.state = "CLOSED" => cb.failure_count = cb.streak)

\* The breaker opened, the recovery timeout passed, and the probe that was
\* let through failed: the breaker is OPEN again with the failure just made.
C40_Witness ==
    /\ cb.state = "OPEN"
    /\ cb.invoked
    /\ cb.result = "error"
    /\ cb.streak = FailureThreshold + 1
    /\ cb.last_failure_time = now
    /\ now > RecoveryTimeout

============================================================================
